---- MODULE Spec2Model ----
(***************************************************************************)
(* A model of the diff annotation and comment-position resolution engine   *)
(* of musashi: formatDiffWithLineNumbers, filterDiffByExcludePatterns,     *)
(* filterCommentsByExcludePatterns, parseResponse and analyzeDiff          *)
(* (src/src/llm/analyzer.ts), findPositionInDiff (src/src/github/          *)
(* comments.ts), postComments and postLineComment (same file), the end of  *)
(* run (src/src/index.ts) and the getLineInfoFromDiff / validateLineInDiff *)
(* variants of the resolver (src/unnamed/part_004, src/unnamed/part_005).  *)
(*                                                                         *)
(* Text is modelled by its structure.  A line of diff text is a record     *)
(*   [first |-> its first character ("" for the empty line),               *)
(*    rest  |-> the text after the first character (line.slice(1)),        *)
(*    hunk  |-> <<oldStart, newStart>> when the hunk-header pattern        *)
(*              matches the line, << >> when it does not]                  *)
(* and a text is the sequence of its lines (text.split("\n")).             *)
(***************************************************************************)
EXTENDS Integers, Sequences, FiniteSets, TLC

VARIABLES
    fpc,            \* SpecFormat: "input" | "done"
    diffText,       \* SpecFormat: the argument of formatDiffWithLineNumbers
    formatted,      \* SpecFormat: the result (the lines of result.join("\n"))
    rpc,            \* SpecResolve: "input" | "annotated" | "position" | "lineinfo" | "validated"
    patch,          \* SpecResolve: file.patch of one file of the pull request
    annotated,      \* SpecResolve: formatDiffWithLineNumbers(patch), as shown to the generator
    targetLine,     \* SpecResolve: comment.line
    position,       \* SpecResolve: findPositionInDiff's result (0: null)
    lineInfo,       \* SpecResolve: getLineInfoFromDiff's result
    validation,     \* SpecResolve: validateLineInDiff's result
    reviewCalls,    \* SpecResolve: the parameters of the createReviewComment calls made
    ppc,            \* SpecParse: "input" | "done"
    responseText,   \* SpecParse: the text the generation service returned
    results,        \* SpecParse: the outcome of parseResponse(responseText)
    apc,            \* SpecAnalyze: "start" | "awaiting" | "done" | "threw"
    prDiff,         \* SpecAnalyze: analyzeDiff's argument diff
    excludeFiles,   \* SpecAnalyze: analyzeDiff's argument excludeFiles
    filteredDiff,   \* SpecAnalyze: the diff handed to formatDiffWithLineNumbers
    formattedDiff,  \* SpecAnalyze: the annotated diff the prompt is built from
    llmResponse,    \* SpecAnalyze: the text the generation service answered
    parsedComments, \* SpecAnalyze: parseResponse's comments, before the post-filter
    analysisResults, \* SpecAnalyze: the outcome of analyzeDiff
    provider,       \* SpecAnalyze: analyzeDiff's argument provider
    llmCalled,      \* SpecAnalyze: the generation service that was called ("none": no call)
    fncpc,          \* SpecFence: "input" | "bare" | "done"
    payload,        \* SpecFence: the payload P the generation service produced
    bareResults,    \* SpecFence: parseResponse(P)
    fencedResults,  \* SpecFence: parseResponse("```json\n" + P + "\n```")
    flpc,           \* SpecFilter: "input" | "once" | "twice"
    fDiff,          \* SpecFilter: the diff text d
    fPatterns,      \* SpecFilter: the pattern list p
    once,           \* SpecFilter: filterDiffByExcludePatterns(d, p)
    twice,          \* SpecFilter: filterDiffByExcludePatterns(once, p)
    pstpc,          \* SpecPost: "start" | "listing" | "loop" | "creating" | "output" | "failed"
    postQueue,      \* SpecPost: analysisResults.comments, handed to postComments
    prFiles,        \* SpecPost: what pulls.listFiles answers
    idx,            \* SpecPost: the place of the loop in postQueue
    outcomes,       \* SpecPost: what became of each comment the loop has handled
    postedComments, \* SpecPost: the comments created on the pull request
    commentCount,   \* SpecPost: the `comment-count` output (-1: not set)
    attempts,       \* SpecPost: the places in postQueue of the comments a create call was issued for
    tpc,            \* SpecTwoRuns: "input" | "first" | "second"
    diffA,          \* SpecTwoRuns: the diff of the first analyzeDiff run
    diffB,          \* SpecTwoRuns: the diff of the second analyzeDiff run
    runExclude,     \* SpecTwoRuns: excludeFiles, the same in both runs
    runRules,       \* SpecTwoRuns: rules, the same in both runs
    runContext,     \* SpecTwoRuns: prContext, the same in both runs
    promptA,        \* SpecTwoRuns: the prompt the first run builds
    promptB         \* SpecTwoRuns: the prompt the second run builds

fmtVars == <<fpc, diffText, formatted>>
resVars == <<rpc, patch, annotated, targetLine, position, lineInfo, validation,
             reviewCalls>>
prsVars == <<ppc, responseText, results>>
anaVars == <<apc, prDiff, excludeFiles, filteredDiff, formattedDiff, llmResponse,
             parsedComments, analysisResults, provider, llmCalled>>
fncVars == <<fncpc, payload, bareResults, fencedResults>>
fltVars == <<flpc, fDiff, fPatterns, once, twice>>
pstVars == <<pstpc, postQueue, prFiles, idx, outcomes, postedComments, commentCount,
             attempts>>
twoVars == <<tpc, diffA, diffB, runExclude, runRules, runContext, promptA, promptB>>
vars == <<fmtVars, resVars, prsVars, anaVars, fncVars, fltVars, pstVars, twoVars>>

(***************************************************************************)
(* Bounds                                                                  *)
(***************************************************************************)
MaxDiffLines == 4
MaxPatchLines == 5
MaxTarget == 13
MaxEntries == 2
MaxSections == 2
MaxRespComments == 2
MaxFilterSections == 3
MaxPostComments == 3
MaxRunSections == 2

(***************************************************************************)
(* Lines of diff text                                                      *)
(***************************************************************************)
HunkLine(o, n) == [first |-> "@", rest |-> "@ hunk @@", hunk |-> <<o, n>>]
BadHunkLine    == [first |-> "@", rest |-> "@ garbage", hunk |-> << >>]
CtxLine(t)     == [first |-> " ", rest |-> t, hunk |-> << >>]
AddLine(t)     == [first |-> "+", rest |-> t, hunk |-> << >>]
DelLine(t)     == [first |-> "-", rest |-> t, hunk |-> << >>]
OldFileLine    == [first |-> "-", rest |-> "-- a/file", hunk |-> << >>]
NewFileLine    == [first |-> "+", rest |-> "++ b/file", hunk |-> << >>]
IndexLine      == [first |-> "i", rest |-> "ndex 1234567..abcdefg", hunk |-> << >>]
EmptyLine      == [first |-> "", rest |-> "", hunk |-> << >>]

\* diff.split("\n"): the empty text splits into one empty line.
SplitLines(text) == IF text = << >> THEN <<EmptyLine>> ELSE text

\* line.startsWith(c) for a one-character c.
StartsWith(line, c) == line.first = c

\* /^@@ -(\d+),?\d* \+(\d+),?\d* @@/.exec(line)
HunkHeaderMatch(line) == line.hunk # << >>

SeqsUpTo(S, n) == UNION {[1..k -> S] : k \in 0..n}

(***************************************************************************)
(* formatDiffWithLineNumbers (src/src/llm/analyzer.ts:439-468).            *)
(* An output line `<marker>[n] <content>` is [m |-> marker, n |-> n,       *)
(* t |-> content]; the result is the sequence of output lines, the empty   *)
(* sequence being the empty string.                                        *)
(***************************************************************************)
\* An annotator that stops at a line that begins with `@@` and is no header.
RECURSIVE FormatLoopStoppingAtBadHeader(_, _, _, _)
FormatLoopStoppingAtBadHeader(lines, i, oldLine, newLine) ==
    IF i > Len(lines) THEN << >>
    ELSE LET line == lines[i] IN
         IF HunkHeaderMatch(line)
         THEN FormatLoopStoppingAtBadHeader(lines, i + 1, line.hunk[1], line.hunk[2])
         ELSE IF StartsWith(line, "@")
         THEN << >>
         ELSE IF StartsWith(line, " ")
         THEN <<[m |-> " ", n |-> oldLine, t |-> line.rest]>>
                  \o FormatLoopStoppingAtBadHeader(lines, i + 1, oldLine + 1, newLine + 1)
         ELSE IF StartsWith(line, "-")
         THEN <<[m |-> "-", n |-> oldLine, t |-> line.rest]>>
                  \o FormatLoopStoppingAtBadHeader(lines, i + 1, oldLine + 1, newLine)
         ELSE IF StartsWith(line, "+")
         THEN <<[m |-> "+", n |-> newLine, t |-> line.rest]>>
                  \o FormatLoopStoppingAtBadHeader(lines, i + 1, oldLine, newLine + 1)
         ELSE FormatLoopStoppingAtBadHeader(lines, i + 1, oldLine, newLine)

RECURSIVE FormatLoop(_, _, _, _)
FormatLoop(lines, i, oldLine, newLine) ==
    IF i > Len(lines) THEN << >>
    ELSE LET line == lines[i] IN
         IF HunkHeaderMatch(line)
         THEN FormatLoop(lines, i + 1, line.hunk[1], line.hunk[2])
         ELSE IF StartsWith(line, " ")
         THEN <<[m |-> " ", n |-> oldLine, t |-> line.rest]>>
                  \o FormatLoop(lines, i + 1, oldLine + 1, newLine + 1)
         ELSE IF StartsWith(line, "-")
         THEN <<[m |-> "-", n |-> oldLine, t |-> line.rest]>>
                  \o FormatLoop(lines, i + 1, oldLine + 1, newLine)
         ELSE IF StartsWith(line, "+")
         THEN <<[m |-> "+", n |-> newLine, t |-> line.rest]>>
                  \o FormatLoop(lines, i + 1, oldLine, newLine + 1)
         ELSE FormatLoop(lines, i + 1, oldLine, newLine)

\* An annotator whose counters run on across hunk headers.
RECURSIVE FormatLoopCumulative(_, _, _, _)
FormatLoopCumulative(lines, i, oldLine, newLine) ==
    IF i > Len(lines) THEN << >>
    ELSE LET line == lines[i] IN
         IF HunkHeaderMatch(line)
         THEN FormatLoopCumulative(lines, i + 1,
                                   IF oldLine = 0 THEN line.hunk[1] ELSE oldLine,
                                   IF newLine = 0 THEN line.hunk[2] ELSE newLine)
         ELSE IF line.first \in {" ", "-"}
         THEN <<[m |-> line.first, n |-> oldLine, t |-> line.rest]>>
                  \o FormatLoopCumulative(lines, i + 1, oldLine + 1,
                                           IF line.first = " " THEN newLine + 1 ELSE newLine)
         ELSE IF line.first = "+"
         THEN <<[m |-> "+", n |-> newLine, t |-> line.rest]>>
                  \o FormatLoopCumulative(lines, i + 1, oldLine, newLine + 1)
         ELSE FormatLoopCumulative(lines, i + 1, oldLine, newLine)

formatDiffCumulative(diff) == FormatLoopCumulative(SplitLines(diff), 1, 0, 0)

formatDiffWithLineNumbers(diff) == FormatLoop(SplitLines(diff), 1, 0, 0)

(***************************************************************************)
(* findPositionInDiff (src/src/github/comments.ts:90-111).  The result is  *)
(* the position, or 0 for null (postLineComment tests `!position`, and a   *)
(* position that is found is at least 1).  `!patch` holds of an undefined  *)
(* patch and of the empty string, both modelled by the empty sequence.     *)
(***************************************************************************)
RECURSIVE PositionLoop(_, _, _, _)
PositionLoop(lines, i, currentLine, target) ==
    IF i > Len(lines) THEN 0
    ELSE LET line == lines[i] IN
         IF StartsWith(line, "+") \/ StartsWith(line, " ")
         THEN IF currentLine + 1 = target
              THEN i
              ELSE PositionLoop(lines, i + 1, currentLine + 1, target)
         ELSE PositionLoop(lines, i + 1, currentLine, target)

\* A resolver that counts deletion lines as new-file lines.
RECURSIVE PositionLoopCountingDeletions(_, _, _, _)
PositionLoopCountingDeletions(lines, i, currentLine, target) ==
    IF i > Len(lines) THEN 0
    ELSE IF lines[i].first \in {"+", " ", "-"}
         THEN IF currentLine + 1 = target
              THEN i
              ELSE PositionLoopCountingDeletions(lines, i + 1, currentLine + 1, target)
         ELSE PositionLoopCountingDeletions(lines, i + 1, currentLine, target)

findPositionCountingDeletions(p, target) ==
    IF p = << >> THEN 0 ELSE PositionLoopCountingDeletions(SplitLines(p), 1, 0, target)

\* A resolver that compares the counter with the target before it looks at
\* the line.
RECURSIVE PositionLoopComparingFirst(_, _, _, _)
PositionLoopComparingFirst(lines, i, currentLine, target) ==
    IF i > Len(lines) THEN 0
    ELSE IF currentLine = target THEN i
    ELSE IF lines[i].first \in {"+", " "}
         THEN PositionLoopComparingFirst(lines, i + 1, currentLine + 1, target)
         ELSE PositionLoopComparingFirst(lines, i + 1, currentLine, target)

findPositionComparingFirst(p, target) ==
    IF p = << >> THEN 0 ELSE PositionLoopComparingFirst(SplitLines(p), 1, 0, target)

findPositionInDiff(p, target) ==
    IF p = << >> THEN 0 ELSE PositionLoop(SplitLines(p), 1, 0, target)

(***************************************************************************)
(* getLineInfoFromDiff, the variant of src/unnamed/part_005:388-424: the   *)
(* counter is reset to newStart - 1 at each hunk header.                   *)
(***************************************************************************)
NoLineInfo == [line |-> 0, side |-> "null"]

RECURSIVE LineInfoLoop(_, _, _, _)
LineInfoLoop(lines, i, currentLine, target) ==
    IF i > Len(lines) THEN NoLineInfo
    ELSE LET line == lines[i] IN
         IF StartsWith(line, "@")
         THEN LineInfoLoop(lines, i + 1,
                           IF HunkHeaderMatch(line) THEN line.hunk[2] - 1 ELSE currentLine,
                           target)
         ELSE IF StartsWith(line, "+") \/ StartsWith(line, " ")
         THEN IF currentLine + 1 = target
              THEN [line |-> i, side |-> "RIGHT"]
              ELSE LineInfoLoop(lines, i + 1, currentLine + 1, target)
         ELSE LineInfoLoop(lines, i + 1, currentLine, target)

getLineInfoFromDiff(p, target) ==
    IF p = << >> THEN NoLineInfo ELSE LineInfoLoop(SplitLines(p), 1, 0, target)

(***************************************************************************)
(* getLineInfoFromDiff and validateLineInDiff, the variant of              *)
(* src/unnamed/part_004:88-158: deletion lines are counted too, and the    *)
(* validation resets its counter to oldStart - 1.                          *)
(***************************************************************************)
IsDiffLine(line) ==
    StartsWith(line, "+") \/ StartsWith(line, "-") \/ StartsWith(line, " ")

RECURSIVE LineInfoSideLoop(_, _, _, _)
LineInfoSideLoop(lines, i, currentLine, target) ==
    IF i > Len(lines) THEN NoLineInfo
    ELSE LET line == lines[i] IN
         IF StartsWith(line, "@")
         THEN LineInfoSideLoop(lines, i + 1,
                               IF HunkHeaderMatch(line) THEN line.hunk[2] - 1 ELSE currentLine,
                               target)
         ELSE IF IsDiffLine(line)
         THEN IF currentLine + 1 = target
              THEN [line |-> i, side |-> IF StartsWith(line, "-") THEN "LEFT" ELSE "RIGHT"]
              ELSE LineInfoSideLoop(lines, i + 1, currentLine + 1, target)
         ELSE LineInfoSideLoop(lines, i + 1, currentLine, target)

getLineInfoFromDiffWithSide(p, target) ==
    IF p = << >> THEN NoLineInfo ELSE LineInfoSideLoop(SplitLines(p), 1, 0, target)

\* codeLine is << >> (undefined) or <<line>>.
RECURSIVE ValidateLoop(_, _, _, _, _)
ValidateLoop(lines, i, currentLine, target, foundLine) ==
    IF i > Len(lines) THEN [isValid |-> FALSE, codeLine |-> foundLine]
    ELSE LET line == lines[i] IN
         IF StartsWith(line, "@")
         THEN ValidateLoop(lines, i + 1,
                           IF HunkHeaderMatch(line) THEN line.hunk[1] - 1 ELSE currentLine,
                           target, foundLine)
         ELSE IF IsDiffLine(line)
         THEN IF currentLine + 1 = target
              THEN IF StartsWith(line, "+") \/ StartsWith(line, "-")
                   THEN [isValid |-> TRUE, codeLine |-> <<line>>]
                   ELSE ValidateLoop(lines, i + 1, currentLine + 1, target, <<line>>)
              ELSE ValidateLoop(lines, i + 1, currentLine + 1, target, foundLine)
         ELSE ValidateLoop(lines, i + 1, currentLine, target, foundLine)

validateLineInDiff(p, target) ==
    IF p = << >> THEN [isValid |-> FALSE, codeLine |-> << >>]
    ELSE ValidateLoop(SplitLines(p), 1, 0, target, << >>)

(***************************************************************************)
(* JSON values and JavaScript's treatment of them.  A string is the        *)
(* sequence of its pieces, "" being << >>; a path is the sequence of its   *)
(* segments.  Undefined is what reading an absent property yields.         *)
(***************************************************************************)
JNull      == [j |-> "null"]
Undefined  == [j |-> "undefined"]
JNum(n)    == [j |-> "num", n |-> n]
JStr(s)    == [j |-> "str", s |-> s]
JArr(xs)   == [j |-> "arr", items |-> xs]
JObj(f)    == [j |-> "obj", f |-> f]

\* if (v) ...
Truthy(v) ==
    CASE v.j \in {"null", "undefined"} -> FALSE
      [] v.j = "num" -> v.n # 0
      [] v.j = "str" -> v.s # << >>
      [] OTHER -> TRUE

\* v.key throws a TypeError when v is null or undefined.
GetThrows(v) == v.j \in {"null", "undefined"}

\* v.key for the keys read here, none of which a string, a number or an array has.
Get(v, key) ==
    IF v.j = "obj" /\ key \in DOMAIN v.f THEN v.f[key] ELSE Undefined

\* key in v, for an object v.
HasKey(v, key) == v.j = "obj" /\ key \in DOMAIN v.f

\* Array.isArray(v)
IsArray(v) == v.j = "arr"

\* The outcome of evaluating a block: a value, or a thrown error.
Return(v) == [threw |-> FALSE, value |-> v]
Throw(msg) == [threw |-> TRUE, error |-> msg]
\* A thrown error whose message is msg followed by arg.
ThrowWith(msg, arg) == [threw |-> TRUE, error |-> msg, arg |-> arg]

(***************************************************************************)
(* Response text.  The text the generation service returns is a sequence   *)
(* of tokens: a fence (three backticks), the tag `json`, white space,      *)
(* prose (text that is no JSON and holds no backtick), or the text of one  *)
(* JSON document (holding no backtick).                                    *)
(***************************************************************************)
Fence   == [k |-> "fence"]
JsonTag == [k |-> "tag"]
Ws      == [k |-> "ws"]
Prose   == [k |-> "prose"]
Doc(v)  == [k |-> "doc", v |-> v]

\* The text of a JSON document one of whose strings holds backticks: the
\* text up to the first fence inside the string (DocOpen), the fences and
\* the string's text between them, and the text after the last fence
\* (DocClose).  Neither part alone is JSON.
DocOpen(v) == [k |-> "docopen", v |-> v]
DocClose   == [k |-> "docclose"]

RECURSIVE DropLeadingWs(_)
DropLeadingWs(toks) ==
    IF toks # << >> /\ Head(toks) = Ws THEN DropLeadingWs(Tail(toks)) ELSE toks

RECURSIVE DropTrailingWs(_)
DropTrailingWs(toks) ==
    IF toks # << >> /\ toks[Len(toks)] = Ws
    THEN DropTrailingWs(SubSeq(toks, 1, Len(toks) - 1))
    ELSE toks

\* response.match(/```(?:json)?\s*([\s\S]*?)\s*```/): the match begins at the
\* first fence that a later fence closes, and group 1 is what lies between
\* the two, less a leading tag and the white space around it.  No match: << >>
\* (as is an empty group 1, which the code does not use either).
CodeBlockMatch(response) ==
    LET fences == {i \in 1..Len(response) : response[i] = Fence} IN
    IF Cardinality(fences) < 2 THEN << >>
    ELSE LET open  == CHOOSE i \in fences : \A k \in fences : i <= k
             close == CHOOSE i \in fences \ {open} : \A k \in fences \ {open} : i <= k
             inner == SubSeq(response, open + 1, close - 1)
             body  == IF inner # << >> /\ Head(inner) = JsonTag THEN Tail(inner) ELSE inner
         IN  DropTrailingWs(DropLeadingWs(body))

\* analyzer.ts:351-357
CleanedResponse(response) ==
    IF CodeBlockMatch(response) # << >> THEN CodeBlockMatch(response) ELSE response

\* JSON.parse(text): white space around the one document is allowed.
JsonParse(text) ==
    LET body == DropTrailingWs(DropLeadingWs(text)) IN
    IF Len(body) = 1 /\ body[1].k = "doc"
    THEN Return(body[1].v)
    ELSE IF /\ Len(body) >= 3
            /\ body[1].k = "docopen"
            /\ body[Len(body)] = DocClose
            /\ \A i \in 2..(Len(body) - 1) : body[i] \in {Fence, JsonTag, Ws, Prose}
    THEN Return(body[1].v)
    ELSE Throw("SyntaxError: Unexpected token")

(***************************************************************************)
(* parseResponse (src/src/llm/analyzer.ts:348-437)                         *)
(***************************************************************************)
\* analyzer.ts:397-404 and 408-411
LineCommentOf(comment) ==
    [type |-> "line", file |-> Get(comment, "file"), line |-> Get(comment, "line"),
     body |-> Get(comment, "body"),
     commit_id |-> IF HasKey(comment, "commit_id") THEN Get(comment, "commit_id")
                                                   ELSE Undefined]

PrCommentOf(comment) == [type |-> "pr", body |-> Get(comment, "body")]

\* analyzer.ts:379-417, the loop over parsedResponse.comments
RECURSIVE ValidateComments(_, _, _)
ValidateComments(entries, i, validComments) ==
    IF i > Len(entries) THEN Return(validComments)
    ELSE LET comment == entries[i] IN
         IF GetThrows(comment)
         THEN Throw("TypeError: Cannot read properties of null (reading 'type')")
         ELSE IF ~Truthy(Get(comment, "type")) \/ ~Truthy(Get(comment, "body"))
         THEN ValidateComments(entries, i + 1, validComments)
         ELSE IF Get(comment, "type") = JStr(<<"line">>)
         THEN IF ~HasKey(comment, "file") \/ ~HasKey(comment, "line")
              THEN ValidateComments(entries, i + 1, validComments)
              ELSE ValidateComments(entries, i + 1,
                                    Append(validComments, LineCommentOf(comment)))
         ELSE IF Get(comment, "type") = JStr(<<"pr">>)
         THEN ValidateComments(entries, i + 1, Append(validComments, PrCommentOf(comment)))
         ELSE ValidateComments(entries, i + 1, validComments)

NoSummary == JStr(<<"No summary provided">>)

\* analyzer.ts:349-422, the body of the try block
ParseResponseTry(response) ==
    LET parsed == JsonParse(CleanedResponse(response)) IN
    IF parsed.threw THEN parsed
    ELSE LET parsedResponse == parsed.value IN
         IF GetThrows(parsedResponse)
         THEN Throw("TypeError: Cannot read properties of null (reading 'comments')")
         ELSE IF ~Truthy(Get(parsedResponse, "comments"))
                 \/ ~IsArray(Get(parsedResponse, "comments"))
         THEN Throw("Invalid response format: missing or invalid comments array")
         ELSE LET summary == IF Truthy(Get(parsedResponse, "summary"))
                             THEN Get(parsedResponse, "summary")
                             ELSE NoSummary
                  valid == ValidateComments(Get(parsedResponse, "comments").items, 1, << >>)
              IN  IF valid.threw THEN valid
                  ELSE Return([comments |-> valid.value, summary |-> summary])

\* analyzer.ts:423-436, the catch block
ParseErrorResult(message) ==
    [comments |-> << >>, summary |-> JStr(<<"Error parsing LLM response: ", message>>)]

\* A parseResponse that lets the error escape.
parseResponseUncaught(response) == ParseResponseTry(response)

parseResponse(response) ==
    LET tried == ParseResponseTry(response) IN
    IF tried.threw THEN Return(ParseErrorResult(tried.error)) ELSE tried

(***************************************************************************)
(* micromatch.isMatch(path, patterns), as analyzer.ts:134 and :154 call    *)
(* it (default options).  A path is the sequence of its segments and a     *)
(* pattern the sequence of its own: a literal segment, `*`, `*.<ext>` or   *)
(* `**`.  A wildcard does not match a segment that begins with a dot.      *)
(***************************************************************************)
\* segment.startsWith(".")
IsDotSegment(seg) == seg \in {".musashi", ".github"}

\* The extension of a segment, "" when it has none.
Extension(seg) ==
    CASE seg \in {"README.md", "rules.md"} -> "md"
      [] seg \in {"test.js"} -> "js"
      [] OTHER -> ""

\* The extension a `*.<ext>` pattern segment asks for.
StarExtension(pseg) ==
    CASE pseg = "*.md" -> "md"
      [] pseg = "*.js" -> "js"
      [] OTHER -> ""

MatchSegment(pseg, seg) ==
    CASE pseg = "*" -> ~IsDotSegment(seg)
      [] pseg \in {"*.md", "*.js"} -> ~IsDotSegment(seg) /\ Extension(seg) = StarExtension(pseg)
      [] OTHER -> pseg = seg

RECURSIVE GlobMatch(_, _)
GlobMatch(pattern, path) ==
    IF pattern = << >> THEN path = << >>
    ELSE IF Head(pattern) = "**"
    THEN \/ GlobMatch(Tail(pattern), path)
         \/ path # << >> /\ ~IsDotSegment(Head(path)) /\ GlobMatch(pattern, Tail(path))
    ELSE /\ path # << >>
         /\ MatchSegment(Head(pattern), Head(path))
         /\ GlobMatch(Tail(pattern), Tail(path))

\* isMatch of a string: true when some pattern of the list matches; the
\* empty string matches nothing.
IsMatch(path, patterns) ==
    /\ path # << >>
    /\ \E i \in 1..Len(patterns) : GlobMatch(patterns[i], path)

(***************************************************************************)
(* The text of a pull request's diff, as filterDiffByExcludePatterns cuts  *)
(* it: a sequence of tokens, each the literal `diff --git ` (DG), the rest *)
(* of a file header line `a/<a> b/<b>` (Hdr), or one whole line (L).       *)
(***************************************************************************)
DG        == [k |-> "dg"]
Hdr(a, b) == [k |-> "hdr", a |-> a, b |-> b]
L(line)   == [k |-> "line", line |-> line]

\* The rest of a file header line the path pattern does not match, as
\* `"a/caf\303\251.txt" "b/caf\303\251.txt"` (git quotes such paths).
QuotedHdr == [k |-> "quoted"]

\* The beginning `+see ` of an added line that goes on with `diff --git `.
AddStart == [k |-> "start"]

FileHeaderLine(a, b) ==
    [first |-> "d", rest |-> "iff --git", hunk |-> << >>, a |-> a, b |-> b]

\* text.split("\n") of a diff text: `diff --git ` and the header rest make one
\* line, and so does the beginning of an added line with what follows it up
\* to the end of the line (the line's text after its beginning is not kept).
RECURSIVE TextLines(_)
TextLines(toks) ==
    IF toks = << >> THEN << >>
    ELSE IF Head(toks).k = "line" THEN <<Head(toks).line>> \o TextLines(Tail(toks))
    ELSE IF Head(toks).k = "hdr"
    THEN <<FileHeaderLine(Head(toks).a, Head(toks).b)>> \o TextLines(Tail(toks))
    ELSE IF Head(toks) = AddStart
    THEN <<AddLine("see")>> \o
         TextLines(IF Len(toks) >= 2 /\ toks[2] = DG
                   THEN SubSeq(toks, IF Len(toks) >= 3 THEN 4 ELSE 3, Len(toks))
                   ELSE Tail(toks))
    ELSE TextLines(Tail(toks))

\* diff.split("diff --git "): the pieces between the occurrences, of which
\* there is one more than there are occurrences.
RECURSIVE SplitSections(_, _)
SplitSections(toks, piece) ==
    IF toks = << >> THEN <<piece>>
    ELSE IF Head(toks) = DG THEN <<piece>> \o SplitSections(Tail(toks), << >>)
    ELSE SplitSections(Tail(toks), Append(piece, Head(toks)))

\* !section.trim(): the section holds white space only.
IsBlank(section) ==
    \A i \in 1..Len(section) : section[i].k = "line" /\ section[i].line = EmptyLine

\* processedSection.match(/diff --git a\/(.*?) b\//): <<path>>, or << >> for no match.
FilePathMatch(processedSection) ==
    IF /\ Len(processedSection) >= 2
       /\ processedSection[1] = DG
       /\ processedSection[2].k = "hdr"
    THEN <<processedSection[2].a>>
    ELSE << >>

(***************************************************************************)
(* filterDiffByExcludePatterns (src/src/llm/analyzer.ts:104-140)           *)
(***************************************************************************)
\* analyzer.ts:117-137, the loop; `first` is diffSections[0].
RECURSIVE FilterSections(_, _, _, _)
FilterSections(sections, i, first, excludePatterns) ==
    IF i > Len(sections) THEN << >>
    ELSE LET section == sections[i]
             processedSection ==
                 IF section = first /\ first # << >> THEN section ELSE <<DG>> \o section
             rest == FilterSections(sections, i + 1, first, excludePatterns)
         IN  IF IsBlank(section) THEN rest
             ELSE IF FilePathMatch(processedSection) = << >> THEN rest
             ELSE IF ~IsMatch(FilePathMatch(processedSection)[1], excludePatterns)
             THEN processedSection \o rest
             ELSE rest

\* A pre-filter that pushes the section without the prefix it was cut at.
RECURSIVE FilterSectionsBare(_, _, _, _)
FilterSectionsBare(sections, i, first, excludePatterns) ==
    IF i > Len(sections) THEN << >>
    ELSE LET section == sections[i]
             processedSection ==
                 IF section = first /\ first # << >> THEN section ELSE <<DG>> \o section
             rest == FilterSectionsBare(sections, i + 1, first, excludePatterns)
         IN  IF IsBlank(section) THEN rest
             ELSE IF FilePathMatch(processedSection) = << >> THEN rest
             ELSE IF ~IsMatch(FilePathMatch(processedSection)[1], excludePatterns)
             THEN section \o rest
             ELSE rest

filterDiffDroppingPrefix(diff, excludePatterns) ==
    LET diffSections == SplitSections(diff, << >>)
        sectionsToProcess ==
            IF diffSections[1] # << >> THEN diffSections ELSE Tail(diffSections)
    IN  FilterSectionsBare(sectionsToProcess, 1, diffSections[1], excludePatterns)

filterDiffByExcludePatterns(diff, excludePatterns) ==
    LET diffSections == SplitSections(diff, << >>)
        sectionsToProcess ==
            IF diffSections[1] # << >> THEN diffSections ELSE Tail(diffSections)
    IN  FilterSections(sectionsToProcess, 1, diffSections[1], excludePatterns)

(***************************************************************************)
(* filterCommentsByExcludePatterns (src/src/llm/analyzer.ts:145-156).      *)
(* micromatch throws a TypeError for a `file` that is no string.           *)
(***************************************************************************)
RECURSIVE FilterComments(_, _, _, _)
FilterComments(comments, i, excludePatterns, kept) ==
    IF i > Len(comments) THEN Return(kept)
    ELSE LET comment == comments[i] IN
         IF comment.type # "line"
         THEN FilterComments(comments, i + 1, excludePatterns, Append(kept, comment))
         ELSE IF comment.file.j # "str"
         THEN Throw("TypeError: Expected input to be a string")
         ELSE IF ~IsMatch(comment.file.s, excludePatterns)
         THEN FilterComments(comments, i + 1, excludePatterns, Append(kept, comment))
         ELSE FilterComments(comments, i + 1, excludePatterns, kept)

\* A post-filter that tests the first pattern only.
filterCommentsFirstPatternOnly(comments, excludePatterns) ==
    FilterComments(comments, 1, SubSeq(excludePatterns, 1, 1), << >>)

filterCommentsByExcludePatterns(comments, excludePatterns) ==
    FilterComments(comments, 1, excludePatterns, << >>)

(***************************************************************************)
(* SpecFormat: formatDiffWithLineNumbers applied to bounded diff texts     *)
(***************************************************************************)
FormatAlphabet ==
    {HunkLine(1, 1), HunkLine(10, 10), HunkLine(10, 11), BadHunkLine,
     CtxLine("a"), AddLine("a"), AddLine("b"), DelLine("a"),
     OldFileLine, NewFileLine, IndexLine}

ResolveIdle ==
    /\ rpc = "idle"
    /\ patch = << >>
    /\ annotated = << >>
    /\ targetLine = 0
    /\ position = 0
    /\ lineInfo = NoLineInfo
    /\ validation = [isValid |-> FALSE, codeLine |-> << >>]
    /\ reviewCalls = << >>

FormatIdle ==
    /\ fpc = "idle"
    /\ diffText = << >>
    /\ formatted = << >>

ParseIdle ==
    /\ ppc = "idle"
    /\ responseText = << >>
    /\ results = Return(ParseErrorResult(""))

AnalyzeIdle ==
    /\ apc = "idle"
    /\ prDiff = << >>
    /\ excludeFiles = << >>
    /\ filteredDiff = << >>
    /\ formattedDiff = << >>
    /\ llmResponse = << >>
    /\ parsedComments = << >>
    /\ analysisResults = Return(ParseErrorResult(""))
    /\ provider = ""
    /\ llmCalled = "none"

TwoRunsIdle ==
    /\ tpc = "idle"
    /\ diffA = << >>
    /\ diffB = << >>
    /\ runExclude = << >>
    /\ runRules = ""
    /\ runContext = "undefined"
    /\ promptA = << >>
    /\ promptB = << >>

PostIdle ==
    /\ pstpc = "idle"
    /\ postQueue = << >>
    /\ prFiles = << >>
    /\ idx = 0
    /\ outcomes = << >>
    /\ postedComments = << >>
    /\ commentCount = -1
    /\ attempts = << >>

FenceIdle ==
    /\ fncpc = "idle"
    /\ payload = << >>
    /\ bareResults = Return(ParseErrorResult(""))
    /\ fencedResults = Return(ParseErrorResult(""))

FilterIdle ==
    /\ flpc = "idle"
    /\ fDiff = << >>
    /\ fPatterns = << >>
    /\ once = << >>
    /\ twice = << >>

\* The variables each specification leaves alone, and the idle values they keep.
fmtRest == <<resVars, prsVars, anaVars, fncVars, fltVars, pstVars, twoVars>>
FmtRestIdle == ResolveIdle /\ ParseIdle /\ AnalyzeIdle /\ FenceIdle /\ FilterIdle /\ PostIdle /\ TwoRunsIdle
resRest == <<fmtVars, prsVars, anaVars, fncVars, fltVars, pstVars, twoVars>>
ResRestIdle == FormatIdle /\ ParseIdle /\ AnalyzeIdle /\ FenceIdle /\ FilterIdle /\ PostIdle /\ TwoRunsIdle
prsRest == <<fmtVars, resVars, anaVars, fncVars, fltVars, pstVars, twoVars>>
PrsRestIdle == FormatIdle /\ ResolveIdle /\ AnalyzeIdle /\ FenceIdle /\ FilterIdle /\ PostIdle /\ TwoRunsIdle
anaRest == <<fmtVars, resVars, prsVars, fncVars, fltVars, pstVars, twoVars>>
AnaRestIdle == FormatIdle /\ ResolveIdle /\ ParseIdle /\ FenceIdle /\ FilterIdle /\ PostIdle /\ TwoRunsIdle
fncRest == <<fmtVars, resVars, prsVars, anaVars, fltVars, pstVars, twoVars>>
FncRestIdle == FormatIdle /\ ResolveIdle /\ ParseIdle /\ AnalyzeIdle /\ FilterIdle /\ PostIdle /\ TwoRunsIdle
fltRest == <<fmtVars, resVars, prsVars, anaVars, fncVars, pstVars, twoVars>>
FltRestIdle == FormatIdle /\ ResolveIdle /\ ParseIdle /\ AnalyzeIdle /\ FenceIdle /\ PostIdle /\ TwoRunsIdle
pstRest == <<fmtVars, resVars, prsVars, anaVars, fncVars, fltVars, twoVars>>
PstRestIdle == FormatIdle /\ ResolveIdle /\ ParseIdle /\ AnalyzeIdle /\ FenceIdle /\ FilterIdle /\ TwoRunsIdle
twoRest == <<fmtVars, resVars, prsVars, anaVars, fncVars, fltVars, pstVars>>
TwoRestIdle == FormatIdle /\ ResolveIdle /\ ParseIdle /\ AnalyzeIdle /\ FenceIdle /\ FilterIdle /\ PostIdle

InitFormat ==
    /\ fpc = "input"
    /\ diffText \in SeqsUpTo(FormatAlphabet, MaxDiffLines)
    /\ formatted = << >>
    /\ FmtRestIdle

FormatDiff ==
    /\ fpc = "input"
    /\ formatted' = formatDiffWithLineNumbers(diffText)
    /\ fpc' = "done"
    /\ UNCHANGED <<diffText, fmtRest>>

NextFormat == FormatDiff

SpecFormat == InitFormat /\ [][NextFormat]_vars

(***************************************************************************)
(* SpecResolve: one file's patch is annotated for the generator, which     *)
(* answers with a line number; the number is resolved against the patch.   *)
(* A patch is what the pulls.listFiles API returns for a file: it begins   *)
(* with a hunk header, every hunk has lines, the hunks follow each other   *)
(* in the file, and each header's new start is its old start shifted by    *)
(* the additions and deletions of the hunks before it.                     *)
(***************************************************************************)
PatchAlphabet ==
    {HunkLine(1, 1), HunkLine(5, 5), HunkLine(10, 10), HunkLine(10, 11), HunkLine(10, 9),
     CtxLine("a"), AddLine("a"), DelLine("a")}

Count(lines, from, to, firsts) ==
    Cardinality({j \in from..to : ~HunkHeaderMatch(lines[j]) /\ lines[j].first \in firsts})

HunkHeaders(lines) == {i \in 1..Len(lines) : HunkHeaderMatch(lines[i])}

WellFormedPatch(p) ==
    /\ p # << >>
    /\ HunkHeaderMatch(p[1])
    /\ p[1].hunk[1] = p[1].hunk[2]
    /\ \A i \in 1..Len(p) : p[i].first \in {"@", " ", "+", "-"}
    /\ \A i \in HunkHeaders(p) : i < Len(p) /\ ~HunkHeaderMatch(p[i + 1])
    /\ \A i, j \in HunkHeaders(p) :
          (i < j /\ \A k \in (i + 1)..(j - 1) : k \notin HunkHeaders(p)) =>
             /\ p[j].hunk[1] >= p[i].hunk[1] + Count(p, i + 1, j - 1, {" ", "-"})
             /\ p[j].hunk[2] - p[j].hunk[1] =
                   p[i].hunk[2] - p[i].hunk[1]
                     + Count(p, i + 1, j - 1, {"+"}) - Count(p, i + 1, j - 1, {"-"})

Patches == {p \in SeqsUpTo(PatchAlphabet, MaxPatchLines) : WellFormedPatch(p)}

Targets == (-1..MaxTarget) \cup {99}

InitResolve ==
    /\ rpc = "input"
    /\ patch \in Patches \cup {<< >>}
    /\ annotated = << >>
    /\ targetLine = 0
    /\ position = 0
    /\ lineInfo = NoLineInfo
    /\ validation = [isValid |-> FALSE, codeLine |-> << >>]
    /\ reviewCalls = << >>
    /\ ResRestIdle

\* analyzeDiff annotates the diff before the generation call (analyzer.ts:53).
Annotate ==
    /\ rpc = "input"
    /\ annotated' = formatDiffWithLineNumbers(patch)
    /\ rpc' = "annotated"
    /\ UNCHANGED <<patch, targetLine, position, lineInfo, validation, reviewCalls, resRest>>

\* The parameters of one pulls.createReviewComment call; a field the call
\* does not carry is 0.
PositionParams(p) == [position |-> p, line |-> 0, side |-> "RIGHT"]
LineParams(l, sd) == [position |-> 0, line |-> l, side |-> sd]

\* postLineComment of comments.ts:131-154: the position is sent with the
\* literal side RIGHT; a null position returns before the call.
ResolvePosition ==
    /\ rpc = "annotated"
    /\ \E t \in Targets :
          /\ targetLine' = t
          /\ position' = findPositionInDiff(patch, t)
          /\ reviewCalls' = IF findPositionInDiff(patch, t) = 0
                             THEN << >>
                             ELSE <<PositionParams(findPositionInDiff(patch, t))>>
    /\ rpc' = "position"
    /\ UNCHANGED <<patch, annotated, lineInfo, validation, resRest>>

\* postLineComment of part_005:444-466: the resolved line and side are both
\* sent; a null lineInfo returns before the call.
ResolveLineInfo ==
    /\ rpc = "annotated"
    /\ \E t \in Targets :
          /\ targetLine' = t
          /\ lineInfo' = getLineInfoFromDiff(patch, t)
          /\ reviewCalls' = IF getLineInfoFromDiff(patch, t) = NoLineInfo
                             THEN << >>
                             ELSE <<LineParams(getLineInfoFromDiff(patch, t).line,
                                               getLineInfoFromDiff(patch, t).side)>>
    /\ rpc' = "lineinfo"
    /\ UNCHANGED <<patch, annotated, position, validation, resRest>>

\* postLineComment of part_004:169-228: validation first, then resolution;
\* params starts as line 0, side RIGHT and only params.line is overwritten
\* with the resolved line, so the resolved side is not sent.
ResolveValidated ==
    /\ rpc = "annotated"
    /\ \E t \in Targets :
          /\ targetLine' = t
          /\ validation' = validateLineInDiff(patch, t)
          /\ lineInfo' = IF validateLineInDiff(patch, t).isValid
                          THEN getLineInfoFromDiffWithSide(patch, t)
                          ELSE NoLineInfo
          /\ reviewCalls' =
                IF /\ validateLineInDiff(patch, t).isValid
                   /\ getLineInfoFromDiffWithSide(patch, t) # NoLineInfo
                THEN <<LineParams(getLineInfoFromDiffWithSide(patch, t).line, "RIGHT")>>
                ELSE << >>
    /\ rpc' = "validated"
    /\ UNCHANGED <<patch, annotated, position, resRest>>

NextResolve == Annotate \/ ResolvePosition \/ ResolveLineInfo \/ ResolveValidated

SpecResolve == InitResolve /\ [][NextResolve]_vars

(***************************************************************************)
(* SpecParse: parseResponse applied to bounded response texts              *)
(***************************************************************************)
Str(x) == JStr(<<x>>)
TestJs == JStr(<<"test.js">>)

\* What an entry of the `comments` array can be.
EntryAlphabet ==
    {JNull, JNum(5), Str("text"), JArr(<< >>), JObj(<< >>),
     JObj([type |-> Str("line"), file |-> TestJs, line |-> JNum(2), body |-> Str("Comment 1")]),
     JObj([type |-> Str("line"), file |-> TestJs, line |-> JNum(3), body |-> Str("Comment 2"),
           commit_id |-> Str("abc123")]),
     JObj([type |-> Str("line"), file |-> TestJs, line |-> JNum(3), body |-> Str("Comment 2"),
           commitId |-> Str("abc123")]),
     JObj([type |-> Str("line"), file |-> TestJs, body |-> Str("Comment 1")]),
     JObj([type |-> Str("line"), line |-> JNum(2), body |-> Str("Comment 1")]),
     JObj([type |-> Str("pr"), body |-> Str("General comment")]),
     JObj([type |-> Str("pr"), body |-> Str("General comment"), file |-> TestJs, line |-> JNum(2)]),
     JObj([type |-> Str("pr"), body |-> JStr(<< >>)]),
     JObj([type |-> Str("pr")]),
     JObj([type |-> JStr(<< >>), body |-> Str("Comment 1")]),
     JObj([body |-> Str("Comment 1")]),
     JObj([type |-> Str("review"), body |-> Str("Comment 1")])}

CommentArrays == {JArr(xs) : xs \in SeqsUpTo(EntryAlphabet, MaxEntries)}

\* The JSON documents: with a comments array (and a summary that is absent,
\* empty or given), and without one.
Documents ==
    {JObj([comments |-> a]) : a \in CommentArrays}
    \cup {JObj([comments |-> a, summary |-> sm]) :
            a \in CommentArrays, sm \in {JStr(<< >>), Str("Test summary")}}
    \cup {JNull, JNum(5), Str("text"), JArr(<< >>), JObj(<< >>),
           JObj([summary |-> Str("Test summary")]),
           JObj([comments |-> JNull, summary |-> Str("Test summary")]),
           JObj([comments |-> Str("none"), summary |-> Str("Test summary")]),
           JObj([comments |-> JNum(0)]),
           JObj([comments |-> JObj(<< >>)])}

Responses ==
    {<<Doc(d)>> : d \in Documents}
    \cup {<<Fence, JsonTag, Ws, Doc(d), Ws, Fence>> : d \in Documents}
    \cup {<<Fence, Ws, Doc(d), Ws, Fence>> : d \in Documents}
    \cup {<<Prose, Ws, Fence, JsonTag, Ws, Doc(d), Ws, Fence, Ws, Prose>> : d \in Documents}
    \cup {<< >>, <<Ws>>, <<Prose>>, <<Fence, Fence>>, <<Fence, JsonTag, Fence>>,
           <<Fence, JsonTag, Ws, Prose, Ws, Fence>>, <<Fence, JsonTag, Ws, Prose>>}
    \cup {<<Doc(d), Ws, Prose>> : d \in {JObj([comments |-> JArr(<< >>)])}}

InitParse ==
    /\ ppc = "input"
    /\ responseText \in Responses
    /\ results = Return(ParseErrorResult(""))
    /\ PrsRestIdle

\* analyzeDiff's call of parseResponse (analyzer.ts:74)
ParseResponse ==
    /\ ppc = "input"
    /\ results' = parseResponse(responseText)
    /\ ppc' = "done"
    /\ UNCHANGED <<responseText, prsRest>>

NextParse == ParseResponse

SpecParse == InitParse /\ [][NextParse]_vars

(***************************************************************************)
(* SpecFence: parseResponse applied to a payload as it is, and to the same *)
(* payload inside a ```json fence (analyzer.ts:350-362).                   *)
(***************************************************************************)
\* A document with a comment whose body holds backticks.
BacktickDoc ==
    JObj([comments |-> JArr(<<JObj([type |-> Str("pr"),
                                    body |-> Str("Wrap the snippet in a fence of three backticks")])>>),
          summary |-> Str("Test summary")])

Payloads ==
    {<<Doc(d)>> : d \in Documents}
    \cup {<<Ws, Doc(d), Ws>> : d \in {BacktickDoc, JNull}}
    \cup {<< >>, <<Ws>>, <<Prose>>, <<Doc(BacktickDoc), Ws, Prose>>}
    \cup {<<DocOpen(BacktickDoc), Fence, DocClose>>,
          <<DocOpen(BacktickDoc), Fence, Prose, Fence, DocClose>>,
          <<DocOpen(BacktickDoc), Fence, JsonTag, Ws, Prose, Ws, Fence, DocClose>>}

\* "```json\n" + P + "\n```"
Fenced(P) == <<Fence, JsonTag, Ws>> \o P \o <<Ws, Fence>>

InitFence ==
    /\ fncpc = "input"
    /\ payload \in Payloads
    /\ bareResults = Return(ParseErrorResult(""))
    /\ fencedResults = Return(ParseErrorResult(""))
    /\ FncRestIdle

ParseBare ==
    /\ fncpc = "input"
    /\ bareResults' = parseResponse(payload)
    /\ fncpc' = "bare"
    /\ UNCHANGED <<payload, fencedResults, fncRest>>

ParseFenced ==
    /\ fncpc = "bare"
    /\ fencedResults' = parseResponse(Fenced(payload))
    /\ fncpc' = "done"
    /\ UNCHANGED <<payload, bareResults, fncRest>>

NextFence == ParseBare \/ ParseFenced

SpecFence == InitFence /\ [][NextFence]_vars

(***************************************************************************)
(* SpecAnalyze: one run of analyzeDiff (src/src/llm/analyzer.ts:28-99) on  *)
(* a bounded diff, with whatever the generation service answers.           *)
(***************************************************************************)
MusashiPath == <<".musashi">>
TestJsPath  == <<"test.js">>
ReadmePath  == <<"docs", "README.md">>
RulesPath   == <<"rules.md">>

Paths == {MusashiPath, TestJsPath, ReadmePath, RulesPath}

\* The file headers of the diff: a file changed in place, or renamed.
FileHeaders ==
    {Hdr(q, q) : q \in Paths}
    \cup {Hdr(TestJsPath, MusashiPath), Hdr(MusashiPath, RulesPath)}

\* One file's section: `diff --git a/<a> b/<b>`, `@@ -1,1 +1,1 @@`, `-old`, `+new`.
Section(h) == <<DG, h, L(HunkLine(1, 1)), L(DelLine("a")), L(AddLine("a"))>>

RECURSIVE Concat(_)
Concat(seqs) == IF seqs = << >> THEN << >> ELSE Head(seqs) \o Concat(Tail(seqs))

Diffs == {Concat([k \in 1..Len(hs) |-> Section(hs[k])]) : hs \in SeqsUpTo(FileHeaders, MaxSections)}

ExcludeLists ==
    {<< >>,
     << <<"*.md">>, <<"docs", "**", "*">> >>,
     << <<"test.js">> >>,
     << <<"**", "*.md">> >>}

AnalyzeEntries ==
    {JObj([type |-> Str("line"), file |-> JStr(q), line |-> JNum(1), body |-> Str("Comment 1")]) :
        q \in Paths}
    \cup {JObj([type |-> Str("pr"), body |-> Str("General comment")]),
          JObj([type |-> Str("line"), file |-> JNum(5), line |-> JNum(1),
                body |-> Str("Comment 1")])}

AnalyzeResponses ==
    {<<Doc(JObj([comments |-> JArr(xs), summary |-> Str("Test summary")]))>> :
        xs \in SeqsUpTo(AnalyzeEntries, MaxRespComments)}
    \cup {<<Prose>>}

\* The provider names analyzeDiff is called with; "openai" is the default.
Providers == {"openai", "Anthropic", "invalid-provider", ""}

\* provider.toLowerCase()
ToLowerCase(str) ==
    CASE str = "Anthropic" -> "anthropic"
      [] str = "OpenAI" -> "openai"
      [] OTHER -> str

\* A switch whose default case calls the default service.
ProviderCaseDefaultingToOpenAI(name) ==
    IF ToLowerCase(name) = "anthropic" THEN "anthropic" ELSE "openai"

\* analyzer.ts:58-71: the case of the switch that is taken.
ProviderCase(name) ==
    CASE ToLowerCase(name) = "anthropic" -> "anthropic"
      [] ToLowerCase(name) = "openai" -> "openai"
      [] OTHER -> "default"

\* analyzer.ts:41
AllExcludePatterns(files) == <<MusashiPath>> \o files

InitAnalyze ==
    /\ apc = "start"
    /\ prDiff \in Diffs
    /\ excludeFiles \in ExcludeLists
    /\ filteredDiff = << >>
    /\ formattedDiff = << >>
    /\ llmResponse = << >>
    /\ parsedComments = << >>
    /\ analysisResults = Return(ParseErrorResult(""))
    /\ provider \in Providers
    /\ llmCalled = "none"
    /\ AnaRestIdle

\* analyzer.ts:37-71 and 91-98: the pre-filter, the annotation and the
\* prompt, up to the await of the generation call, or to the throw of the
\* switch's default case, which the catch block rethrows.
AnalyzeStart ==
    /\ apc = "start"
    /\ LET all == AllExcludePatterns(excludeFiles)
           filtered == IF Len(all) > 0 THEN filterDiffByExcludePatterns(prDiff, all)
                                       ELSE prDiff
       IN  /\ filteredDiff' = filtered
           /\ formattedDiff' = formatDiffWithLineNumbers(TextLines(filtered))
    /\ IF ProviderCase(provider) = "default"
       THEN /\ analysisResults' = ThrowWith("Unsupported LLM provider: ", provider)
            /\ apc' = "threw"
            /\ UNCHANGED llmCalled
       ELSE /\ llmCalled' = ProviderCase(provider)
            /\ apc' = "awaiting"
            /\ UNCHANGED analysisResults
    /\ UNCHANGED <<prDiff, excludeFiles, llmResponse, parsedComments, provider, anaRest>>

\* analyzer.ts:73-90: the generation call answers; the answer is parsed,
\* post-filtered and returned.
AnalyzeResume ==
    /\ apc = "awaiting"
    /\ \E text \in AnalyzeResponses :
          LET all == AllExcludePatterns(excludeFiles)
              parsed == parseResponse(text).value
              filtered == IF Len(all) > 0
                          THEN filterCommentsByExcludePatterns(parsed.comments, all)
                          ELSE Return(parsed.comments)
          IN  /\ llmResponse' = text
              /\ parsedComments' = parsed.comments
              /\ analysisResults' =
                    IF filtered.threw THEN filtered
                    ELSE Return([comments |-> filtered.value, summary |-> parsed.summary])
              /\ apc' = IF filtered.threw THEN "threw" ELSE "done"
    /\ UNCHANGED <<prDiff, excludeFiles, filteredDiff, formattedDiff, provider, llmCalled,
                   anaRest>>

\* analyzer.ts:91-98: the generation call rejects, and analyzeDiff rethrows.
AnalyzeCallFails ==
    /\ apc = "awaiting"
    /\ analysisResults' = Throw("LLM API error")
    /\ apc' = "threw"
    /\ UNCHANGED <<prDiff, excludeFiles, filteredDiff, formattedDiff, llmResponse,
                   parsedComments, provider, llmCalled, anaRest>>

NextAnalyze == AnalyzeStart \/ AnalyzeResume \/ AnalyzeCallFails

SpecAnalyze == InitAnalyze /\ [][NextAnalyze]_vars

(***************************************************************************)
(* SpecFilter: filterDiffByExcludePatterns (analyzer.ts:104-140) applied   *)
(* to a bounded diff text, and again to its own result.                    *)
(***************************************************************************)
\* What can stand before the first `diff --git `.
Preambles == {<< >>, <<L(IndexLine)>>, <<L(EmptyLine)>>}

\* What can stand after a `diff --git `: a file section with a header the
\* path pattern matches or does not match, text without a header, white
\* space, nothing, or a file section with an added line that holds the text
\* `diff --git `.
SectionTexts ==
    {<<h, L(HunkLine(1, 1)), L(AddLine("a"))>> :
        h \in {Hdr(TestJsPath, TestJsPath), Hdr(RulesPath, RulesPath),
               Hdr(MusashiPath, RulesPath), QuotedHdr}}
    \cup {<<L(IndexLine)>>, <<L(EmptyLine)>>, << >>}
    \cup {<<Hdr(TestJsPath, TestJsPath), L(HunkLine(1, 1)), AddStart, DG, L(IndexLine)>>}

FilterDiffs ==
    {pre \o Concat([k \in 1..Len(secs) |-> <<DG>> \o secs[k]]) :
        pre \in Preambles, secs \in SeqsUpTo(SectionTexts, MaxFilterSections)}

FilterPatternLists ==
    {<< >>, <<MusashiPath>>, <<MusashiPath, <<"*.md">> >>, <<MusashiPath, <<"test.js">> >>}

InitFilter ==
    /\ flpc = "input"
    /\ fDiff \in FilterDiffs
    /\ fPatterns \in FilterPatternLists
    /\ once = << >>
    /\ twice = << >>
    /\ FltRestIdle

FilterOnce ==
    /\ flpc = "input"
    /\ once' = filterDiffByExcludePatterns(fDiff, fPatterns)
    /\ flpc' = "once"
    /\ UNCHANGED <<fDiff, fPatterns, twice, fltRest>>

FilterTwice ==
    /\ flpc = "once"
    /\ twice' = filterDiffByExcludePatterns(once, fPatterns)
    /\ flpc' = "twice"
    /\ UNCHANGED <<fDiff, fPatterns, once, fltRest>>

NextFilter == FilterOnce \/ FilterTwice

SpecFilter == InitFilter /\ [][NextFilter]_vars

(***************************************************************************)
(* SpecTwoRuns: analyzeDiff (analyzer.ts:37-54) builds its prompt twice,   *)
(* with the same patterns, rules and context, for two diffs that differ    *)
(* only inside the file sections that match an exclusion pattern.          *)
(***************************************************************************)
\* generatePrompt (analyzer.ts:166-211): the rules, when there are any, the
\* context, when there is one, and the diff.
generatePrompt(diff, rules, prContext) ==
    <<[rules |-> rules, context |-> prContext, diff |-> diff]>>

\* analyzer.ts:41-54
PromptOf(diff, rules, prContext, files) ==
    LET all == AllExcludePatterns(files)
        filtered == IF Len(all) > 0 THEN filterDiffByExcludePatterns(diff, all) ELSE diff
    IN  generatePrompt(formatDiffWithLineNumbers(TextLines(filtered)), rules, prContext)

RunHeaders ==
    {Hdr(TestJsPath, TestJsPath), Hdr(MusashiPath, MusashiPath),
     Hdr(ReadmePath, ReadmePath), Hdr(TestJsPath, MusashiPath)}

\* What a file section holds after its header: a hunk with one added line,
\* or with the added line `+see diff --git a/test.js b/test.js` and another.
RunBodies ==
    {<<L(HunkLine(1, 1)), L(AddLine("a"))>>,
     <<L(HunkLine(1, 1)), L(AddLine("b"))>>,
     <<L(HunkLine(1, 1)), AddStart, DG, Hdr(TestJsPath, TestJsPath), L(AddLine("b"))>>}

RunExcludeLists == {<< >>, << <<"**", "*.md">> >>}

\* The section's file, under its old or its new path, matches a pattern.
SectionExcluded(h, files) ==
    IsMatch(h.a, AllExcludePatterns(files)) \/ IsMatch(h.b, AllExcludePatterns(files))

\* Pairs of sections with one header, the same unless the section is excluded.
SectionPairs(files) ==
    {[h |-> h, x |-> x, y |-> y] :
        h \in RunHeaders, x \in RunBodies, y \in RunBodies}

RunPairs(files) ==
    {ps \in SeqsUpTo(SectionPairs(files), MaxRunSections) :
        \A k \in 1..Len(ps) : ps[k].x # ps[k].y => SectionExcluded(ps[k].h, files)}

InitTwoRuns ==
    /\ tpc = "input"
    /\ runExclude \in RunExcludeLists
    /\ runRules \in {"", "Be kind."}
    /\ runContext \in {"undefined", "context"}
    /\ \E ps \in RunPairs(runExclude) :
          /\ diffA = Concat([k \in 1..Len(ps) |-> <<DG, ps[k].h>> \o ps[k].x])
          /\ diffB = Concat([k \in 1..Len(ps) |-> <<DG, ps[k].h>> \o ps[k].y])
    /\ promptA = << >>
    /\ promptB = << >>
    /\ TwoRestIdle

FirstRun ==
    /\ tpc = "input"
    /\ promptA' = PromptOf(diffA, runRules, runContext, runExclude)
    /\ tpc' = "first"
    /\ UNCHANGED <<diffA, diffB, runExclude, runRules, runContext, promptB, twoRest>>

SecondRun ==
    /\ tpc = "first"
    /\ promptB' = PromptOf(diffB, runRules, runContext, runExclude)
    /\ tpc' = "second"
    /\ UNCHANGED <<diffA, diffB, runExclude, runRules, runContext, promptA, twoRest>>

NextTwoRuns == FirstRun \/ SecondRun

SpecTwoRuns == InitTwoRuns /\ [][NextTwoRuns]_vars

(***************************************************************************)
(* SpecPost: run (src/src/index.ts:106-127) from the call of postComments  *)
(* (src/src/github/comments.ts:14-81) to the outputs.  The calls to the    *)
(* hosting service resolve or reject as the service decides.               *)
(***************************************************************************)
PngPath   == <<"image.png">>
OtherPath == <<"other.js">>

\* The patch of test.js: `@@ -1,1 +1,1 @@`, `-a`, `+a`.
TestJsPatch == <<HunkLine(1, 1), DelLine("a"), AddLine("a")>>

\* pulls.listFiles: a text file with a patch and a binary file without one.
FileLists ==
    {<<[filename |-> TestJsPath, patch |-> TestJsPatch],
       [filename |-> PngPath, patch |-> << >>]>>,
     <<[filename |-> PngPath, patch |-> << >>]>>}

LineComment(file, line) ==
    [type |-> "line", file |-> JStr(file), line |-> JNum(line),
     body |-> Str("Comment 1"), commit_id |-> Undefined]

PostAlphabet ==
    {LineComment(TestJsPath, 1), LineComment(TestJsPath, 99),
     LineComment(PngPath, 1), LineComment(OtherPath, 1),
     [type |-> "pr", body |-> Str("General comment")]}

\* comments.ts:42-45: files.find(f => f.filename === comment.file); << >>: undefined
RECURSIVE FindFile(_, _)
FindFile(files, comment) ==
    IF files = << >> THEN << >>
    ELSE IF JStr(Head(files).filename) = comment.file THEN <<Head(files)>>
    ELSE FindFile(Tail(files), comment)

\* comments.ts:135: findPositionInDiff(patch, comment.line); `===` holds of a number only.
PositionOf(patchText, comment) ==
    IF comment.line.j = "num" THEN findPositionInDiff(patchText, comment.line.n) ELSE 0

\* A catch block that lets the error go on to postComments.
postLineCommentRethrow(error) == [rethrown |-> TRUE, warning |-> error]

\* comments.ts:155-161, the catch block of postLineComment: the error is
\* logged as a warning and goes no further.
postLineCommentCatch(error) == [rethrown |-> FALSE, warning |-> error]

\* comments.ts:189-195, the catch block of postPrComment.
postPrCommentCatch(error) == [rethrown |-> FALSE, warning |-> error]

InitPost ==
    /\ pstpc = "start"
    /\ postQueue \in SeqsUpTo(PostAlphabet, MaxPostComments)
    /\ prFiles \in FileLists
    /\ idx = 0
    /\ outcomes = << >>
    /\ postedComments = << >>
    /\ commentCount = -1
    /\ attempts = << >>
    /\ PstRestIdle

\* comments.ts:25-29: pulls.get resolves.
GetPullRequest ==
    /\ pstpc = "start"
    /\ pstpc' = "listing"
    /\ UNCHANGED <<postQueue, prFiles, idx, outcomes, postedComments, commentCount, attempts,
                 pstRest>>

\* comments.ts:32-36: pulls.listFiles resolves.
ListFiles ==
    /\ pstpc = "listing"
    /\ pstpc' = "loop"
    /\ idx' = 1
    /\ UNCHANGED <<postQueue, prFiles, outcomes, postedComments, commentCount, attempts,
                 pstRest>>

\* comments.ts:73-80 and index.ts:118-126: one of the two calls rejects,
\* postComments rethrows and run sets the action failed.
FetchFails ==
    /\ pstpc \in {"start", "listing"}
    /\ pstpc' = "failed"
    /\ UNCHANGED <<postQueue, prFiles, idx, outcomes, postedComments, commentCount, attempts,
                 pstRest>>

\* comments.ts:39-67 and 131-154, 181-188: the loop takes the next comment,
\* up to the create call it awaits, or to the `continue` / `return` that
\* drops the comment.
TakeComment ==
    /\ pstpc = "loop"
    /\ idx <= Len(postQueue)
    /\ LET comment == postQueue[idx]
           file == FindFile(prFiles, comment)
       IN  IF comment.type = "line"
           THEN IF file = << >>
                THEN /\ outcomes' = Append(outcomes, "file not found")
                     /\ idx' = idx + 1
                     /\ pstpc' = "loop"
                     /\ UNCHANGED attempts
                ELSE IF PositionOf(file[1].patch, comment) = 0
                THEN /\ outcomes' = Append(outcomes, "position not found")
                     /\ idx' = idx + 1
                     /\ pstpc' = "loop"
                     /\ UNCHANGED attempts
                ELSE /\ pstpc' = "creating"
                     /\ attempts' = Append(attempts, idx)
                     /\ UNCHANGED <<idx, outcomes>>
           ELSE IF comment.type = "pr"
           THEN /\ pstpc' = "creating"
                /\ attempts' = Append(attempts, idx)
                /\ UNCHANGED <<idx, outcomes>>
           ELSE /\ outcomes' = Append(outcomes, "unknown type")
                /\ idx' = idx + 1
                /\ pstpc' = "loop"
                /\ UNCHANGED attempts
    /\ UNCHANGED <<postQueue, prFiles, postedComments, commentCount, pstRest>>

\* comments.ts:154 and 183-188: the create call resolves.
CreateResolves ==
    /\ pstpc = "creating"
    /\ LET comment == postQueue[idx] IN
       postedComments' =
           Append(postedComments,
                  IF comment.type = "line"
                  THEN [from |-> idx, path |-> comment.file, side |-> "RIGHT",
                        position |-> PositionOf(FindFile(prFiles, comment)[1].patch, comment)]
                  ELSE [from |-> idx])
    /\ outcomes' = Append(outcomes, "posted")
    /\ idx' = idx + 1
    /\ pstpc' = "loop"
    /\ UNCHANGED <<postQueue, prFiles, commentCount, attempts, pstRest>>

\* A rejected create call after which the loop takes the same comment again.
CreateRejectsRetrying ==
    /\ pstpc = "creating"
    /\ outcomes' = Append(outcomes, "create rejected")
    /\ pstpc' = "loop"
    /\ UNCHANGED <<postQueue, prFiles, idx, postedComments, commentCount, attempts, pstRest>>

\* comments.ts:155-161 and 189-195: the create call rejects.
CreateRejects ==
    /\ pstpc = "creating"
    /\ LET caught == IF postQueue[idx].type = "line"
                     THEN postLineCommentCatch("create call rejected")
                     ELSE postPrCommentCatch("create call rejected")
       IN  IF caught.rethrown
           THEN /\ pstpc' = "failed"
                /\ UNCHANGED <<idx, outcomes>>
           ELSE /\ outcomes' = Append(outcomes, "create rejected")
                /\ idx' = idx + 1
                /\ pstpc' = "loop"
    /\ UNCHANGED <<postQueue, prFiles, postedComments, commentCount, attempts, pstRest>>

\* comments.ts:70-72 and index.ts:114-117: the loop is over, postComments
\* returns and run sets the outputs.
SetOutputs ==
    /\ pstpc = "loop"
    /\ idx > Len(postQueue)
    /\ commentCount' = Len(postQueue)
    /\ pstpc' = "output"
    /\ UNCHANGED <<postQueue, prFiles, idx, outcomes, postedComments, attempts, pstRest>>

NextPost ==
    \/ GetPullRequest
    \/ ListFiles
    \/ FetchFails
    \/ TakeComment
    \/ CreateResolves
    \/ CreateRejects
    \/ SetOutputs

SpecPost == InitPost /\ [][NextPost]_vars

(***************************************************************************)
(* Line numbering of a diff, stated from the unified diff format: the      *)
(* lines of a hunk are numbered from the starts its header gives; context  *)
(* and deletion lines occupy old-file lines, context and addition lines    *)
(* occupy new-file lines.  Before any hunk header the counters stand at 0. *)
(***************************************************************************)
Annotatable(lines, i) ==
    ~HunkHeaderMatch(lines[i]) /\ lines[i].first \in {" ", "-", "+"}

LastHunk(lines, i) ==
    IF \E j \in 1..(i - 1) : HunkHeaderMatch(lines[j])
    THEN CHOOSE j \in 1..(i - 1) :
            /\ HunkHeaderMatch(lines[j])
            /\ \A k \in (j + 1)..(i - 1) : ~HunkHeaderMatch(lines[k])
    ELSE 0

OldNumber(lines, i) ==
    LET h == LastHunk(lines, i) IN
    (IF h = 0 THEN 0 ELSE lines[h].hunk[1]) + Count(lines, h + 1, i - 1, {" ", "-"})

NewNumber(lines, i) ==
    LET h == LastHunk(lines, i) IN
    (IF h = 0 THEN 0 ELSE lines[h].hunk[2]) + Count(lines, h + 1, i - 1, {" ", "+"})

\* The place in the annotated text of the annotation of input line i.
OutIndex(lines, i) == Cardinality({j \in 1..i : Annotatable(lines, j)})

\* The input line the k-th annotated line comes from.
SourceIndex(lines, k) ==
    CHOOSE i \in 1..Len(lines) : Annotatable(lines, i) /\ OutIndex(lines, i) = k

\* The new-file lines a patch covers.
NewRange(p) ==
    {NewNumber(p, i) : i \in {j \in 1..Len(p) : Annotatable(p, j) /\ p[j].first \in {" ", "+"}}}

(***************************************************************************)
(* Claims                                                                  *)
(***************************************************************************)

\* C1: the annotator and the position resolver are inverses: for every
\* context or addition line of a patch that formatDiffWithLineNumbers labels
\* [n], resolving target line n against the same patch (findPositionInDiff,
\* getLineInfoFromDiff) succeeds and selects that same physical patch line.
\* The code breaks it: context lines are labelled with the old-file number,
\* and findPositionInDiff never reads a hunk header.
CexC1_AnnotatorResolverInverse ==
    \A i \in 1..Len(patch) :
        (/\ rpc \in {"position", "lineinfo"}
         /\ patch[i].first \in {" ", "+"}
         /\ annotated[OutIndex(patch, i)].n = targetLine)
        => /\ rpc = "position" => position = i
           /\ rpc = "lineinfo" => lineInfo = [line |-> i, side |-> "RIGHT"]

\* C2: formatDiffWithLineNumbers emits, for each input line beginning with
\* ' ', '-' or '+', exactly one output line `<marker>[n] <content>`, in
\* input order; n is the old-file number of a context or deletion line and
\* the new-file number of an addition line, the numbers running from the
\* starts of the last well-formed hunk header before the line (not
\* cumulatively across hunks); the empty diff yields the empty string.
ThmC2_OneLabelledLinePerDiffLine ==
    fpc = "done" =>
        LET lines == SplitLines(diffText) IN
        /\ Len(formatted) = Cardinality({i \in 1..Len(lines) : Annotatable(lines, i)})
        /\ \A k \in 1..Len(formatted) :
              LET i == SourceIndex(lines, k) IN
              formatted[k] =
                  [m |-> lines[i].first,
                   n |-> IF lines[i].first = "+" THEN NewNumber(lines, i)
                                                 ELSE OldNumber(lines, i),
                   t |-> lines[i].rest]
        /\ diffText = << >> => formatted = << >>

\* The two-hunk diff of the repository's test: the second header resets both counters.
WitC2_SecondHunkResets ==
    /\ fpc = "done"
    /\ diffText = <<HunkLine(1, 1), AddLine("b"), HunkLine(10, 11), CtxLine("a")>>
    /\ formatted = <<[m |-> "+", n |-> 1, t |-> "b"], [m |-> " ", n |-> 10, t |-> "a"]>>

\* C3: position resolution returns failure (null) for every target line
\* that lies outside the new-file line range covered by every hunk of the
\* patch, whatever the hunks' start values are.  findPositionInDiff counts
\* from 0 whatever the header says, so it breaks it.
CexC3_OutsideEveryHunkFails ==
    (rpc = "position" /\ targetLine \notin NewRange(patch)) => position = 0

\* The patch of C4: `@@ -1,1 +1,1 @@` / `-old` / `+new`.
C4Patch == <<HunkLine(1, 1), DelLine("a"), AddLine("a")>>

\* C4, as stated: on C4Patch a comment targeting new-file line 2 resolves
\* successfully and one targeting line 99 resolves to failure.
CexC4_LineTwoResolves ==
    (rpc = "position" /\ patch = C4Patch) =>
        /\ targetLine = 2 => position # 0
        /\ targetLine = 99 => position = 0

\* C4, amended: on C4Patch findPositionInDiff and part_005's
\* getLineInfoFromDiff resolve new-file line 1 to the third patch line and
\* fail on lines 2 and 99; only the part_004 variant, which counts deletion
\* lines as well, resolves line 2 (to the third patch line, side RIGHT), and
\* it fails on line 99 too.
ThmC4_LineOneResolves ==
    patch = C4Patch =>
        /\ rpc = "position" =>
              /\ targetLine = 1 => position = 3
              /\ targetLine \in {2, 99} => position = 0
        /\ rpc = "lineinfo" =>
              /\ targetLine = 1 => lineInfo = [line |-> 3, side |-> "RIGHT"]
              /\ targetLine \in {2, 99} => lineInfo = NoLineInfo
        /\ rpc = "validated" =>
              /\ targetLine = 2 =>
                    validation.isValid /\ lineInfo = [line |-> 3, side |-> "RIGHT"]
              /\ targetLine = 99 => ~validation.isValid /\ lineInfo = NoLineInfo

WitC4_LineTwoUnresolved ==
    rpc = "position" /\ patch = C4Patch /\ targetLine = 2 /\ position = 0

(***************************************************************************)
(* What the comment validation is to return, stated per entry.             *)
(***************************************************************************)
\* The text handed to JSON.parse (the response, or the inside of its fence)
\* is one JSON document, an object with a `comments` array.
HasCommentsArray(text) ==
    LET body == DropTrailingWs(DropLeadingWs(CleanedResponse(text))) IN
    /\ Len(body) = 1
    /\ body[1].k = "doc"
    /\ body[1].v.j = "obj"
    /\ "comments" \in DOMAIN body[1].v.f
    /\ body[1].v.f.comments.j = "arr"

RawComments(text) ==
    DropTrailingWs(DropLeadingWs(CleanedResponse(text)))[1].v.f.comments.items

NonEmptyField(e, key) ==
    /\ key \in DOMAIN e.f
    /\ e.f[key].j = "str" => e.f[key].s # << >>
    /\ e.f[key].j \notin {"null", "undefined"}

ValidEntry(e) ==
    /\ e.j = "obj"
    /\ NonEmptyField(e, "type")
    /\ NonEmptyField(e, "body")
    /\ \/ e.f.type = JStr(<<"pr">>)
       \/ e.f.type = JStr(<<"line">>) /\ {"file", "line"} \subseteq DOMAIN e.f

ExpectedComment(e) ==
    IF e.f.type = JStr(<<"pr">>)
    THEN [type |-> "pr", body |-> e.f.body]
    ELSE [type |-> "line", file |-> e.f.file, line |-> e.f.line, body |-> e.f.body,
          commit_id |-> IF "commit_id" \in DOMAIN e.f THEN e.f.commit_id ELSE Undefined]

ExpectedComments(entries) ==
    LET valid == SelectSeq(entries, ValidEntry) IN
    [k \in 1..Len(valid) |-> ExpectedComment(valid[k])]

ParseFailureReasons ==
    {"SyntaxError: Unexpected token",
     "TypeError: Cannot read properties of null (reading 'comments')",
     "Invalid response format: missing or invalid comments array"}

\* C5: parseResponse never throws, and for every text whose payload (the
\* text itself, or the inside of its fence) is empty, is not valid JSON, or
\* is JSON without a `comments` array, it returns comments = [] with a
\* non-empty summary that embeds the failure reason.
ThmC5_ParseFailureYieldsEmptyResult ==
    ppc = "done" =>
        /\ ~results.threw
        /\ ~HasCommentsArray(responseText) =>
              /\ results.value.comments = << >>
              /\ \E reason \in ParseFailureReasons :
                    results.value.summary =
                        JStr(<<"Error parsing LLM response: ", reason>>)

\* The repository's test: 'This is not valid JSON'.
WitC5_GarbageText ==
    /\ ppc = "done"
    /\ responseText = <<Prose>>
    /\ ~results.threw
    /\ results.value.comments = << >>
    /\ results.value.summary # JStr(<< >>)

\* C6: a single bad entry never aborts the batch: whatever JSON value an
\* entry of the `comments` array is, parseResponse still returns every
\* valid entry of the array.  A null entry breaks it: reading its `type`
\* throws, and the catch block returns no comment at all.
CexC6_BadEntryKeepsValidOnes ==
    (ppc = "done" /\ HasCommentsArray(responseText)) =>
        /\ ~results.threw
        /\ \A i \in 1..Len(RawComments(responseText)) :
              ValidEntry(RawComments(responseText)[i]) =>
                  \E k \in 1..Len(results.value.comments) :
                      results.value.comments[k] = ExpectedComment(RawComments(responseText)[i])

\* C7: on a structurally valid payload (one with a `comments` array),
\* parseResponse returns exactly the subsequence, in input order, of the
\* entries with a non-empty type and body that are of type "pr", or of type
\* "line" with both `file` and `line` present; a "pr" entry yields only type
\* and body.  It fails where C6 fails: on an array with a null entry.
CexC7_ExactValidSubsequence ==
    (ppc = "done" /\ HasCommentsArray(responseText)) =>
        results.value.comments = ExpectedComments(RawComments(responseText))

\* C7 holds of every payload whose entries are all other than null.
AuxC7_ExactValidSubsequenceWithoutNull ==
    (/\ ppc = "done"
     /\ HasCommentsArray(responseText)
     /\ \A i \in 1..Len(RawComments(responseText)) : RawComments(responseText)[i] # JNull) =>
        results.value.comments = ExpectedComments(RawComments(responseText))

(***************************************************************************)
(* analyzeDiff: what the two exclusion filters guarantee                   *)
(***************************************************************************)
\* The file headers of a diff text.
HeadersOf(diff) == {diff[i] : i \in {n \in 1..Len(diff) : diff[n].k = "hdr"}}

\* The line comments analyzeDiff returned.
ReturnedLineComments ==
    {analysisResults.value.comments[k] :
        k \in {n \in 1..Len(analysisResults.value.comments) :
                  analysisResults.value.comments[n].type = "line"}}

\* Every file of the diff is changed in place: no header names two paths.
NoRename == \A h \in HeadersOf(prDiff) : h.a = h.b

\* C8: whatever exclusion list the caller passes, the diff analyzeDiff hands
\* to the annotation step holds no file section whose path (the b/ side of
\* its header) matches `.musashi`, and no returned line comment names a file
\* matching it.  The pre-filter reads the a/ side: the section of a file
\* renamed to `.musashi` stays in the diff.
CexC8_MusashiAlwaysExcluded ==
    /\ apc \in {"awaiting", "done"} =>
          \A h \in HeadersOf(filteredDiff) : ~IsMatch(h.b, <<MusashiPath>>)
    /\ apc = "done" =>
          \A c \in ReturnedLineComments : ~IsMatch(c.file.s, <<MusashiPath>>)

\* C8 holds of every diff without a rename.
AuxC8_MusashiExcludedWithoutRename ==
    NoRename =>
        /\ apc \in {"awaiting", "done"} =>
              \A h \in HeadersOf(filteredDiff) : ~IsMatch(h.b, <<MusashiPath>>)
        /\ apc = "done" =>
              \A c \in ReturnedLineComments : ~IsMatch(c.file.s, <<MusashiPath>>)

\* The indices of the parsed comments the post-filter has to keep.
KeptIndices ==
    {i \in 1..Len(parsedComments) :
        \/ parsedComments[i].type = "pr"
        \/ ~\E n \in 1..Len(AllExcludePatterns(excludeFiles)) :
               GlobMatch(AllExcludePatterns(excludeFiles)[n], parsedComments[i].file.s)}

\* The k-th smallest member of a set of numbers.
KthOf(S, k) == CHOOSE i \in S : Cardinality({j \in S : j < i}) = k - 1

\* C9: the comments analyzeDiff returns are the parsed comments, in their
\* original order, minus exactly the line comments whose file matches at
\* least one exclusion pattern; PR-level comments are never removed.
ThmC9_PostFilterKeepsOrderAndPrComments ==
    apc = "done" =>
        /\ Len(analysisResults.value.comments) = Cardinality(KeptIndices)
        /\ \A k \in 1..Len(analysisResults.value.comments) :
              analysisResults.value.comments[k] = parsedComments[KthOf(KeptIndices, k)]

\* C9's case: a line comment on docs/README.md, matched by the last pattern
\* only, is removed, and the PR-level comment after it is returned.
WitC9_LineCommentRemovedPrKept ==
    /\ apc = "done"
    /\ excludeFiles = << <<"*.md">>, <<"docs", "**", "*">> >>
    /\ Len(parsedComments) = 2
    /\ parsedComments[1].type = "line"
    /\ parsedComments[1].file.s = ReadmePath
    /\ parsedComments[2].type = "pr"
    /\ analysisResults.value.comments = <<parsedComments[2]>>

\* The file headers whose sections the pre-filter removed.
RemovedHeaders == HeadersOf(prDiff) \ HeadersOf(filteredDiff)

\* C10: the pre-filter and the post-filter use the same pattern set, so no
\* returned line comment names a file whose section the pre-filter removed,
\* renames included.  The pre-filter tests the a/ path and the post-filter
\* the comment's file: the section of `.musashi` renamed to rules.md is
\* removed, and a line comment on rules.md is returned.
CexC10_NoCommentOnRemovedSection ==
    apc = "done" =>
        \A c \in ReturnedLineComments :
            \A h \in RemovedHeaders : c.file.s # h.a /\ c.file.s # h.b

\* C10 holds of every diff without a rename.
AuxC10_NoCommentOnRemovedSectionWithoutRename ==
    (apc = "done" /\ NoRename) =>
        \A c \in ReturnedLineComments :
            \A h \in RemovedHeaders : c.file.s # h.a /\ c.file.s # h.b

(***************************************************************************)
(* parseResponse and the fence                                             *)
(***************************************************************************)
\* C11: for every payload P, parseResponse of P inside a ```json fence
\* returns the same comments and the same summary as parseResponse of P.
\* A payload with a backtick fence inside one of its strings breaks it: the
\* pattern's lazy group ends at the payload's own first fence.
CexC11_FencedParsesLikeBare ==
    fncpc = "done" =>
        /\ fencedResults.value.comments = bareResults.value.comments
        /\ fencedResults.value.summary = bareResults.value.summary

\* C11 holds of every payload that is JSON and holds no backtick.
AuxC11_FencedParsesLikeBareWithoutBacktick ==
    (/\ fncpc = "done"
     /\ \A i \in 1..Len(payload) : payload[i].k \in {"doc", "ws"}
     /\ ~JsonParse(payload).threw) =>
        /\ fencedResults.value.comments = bareResults.value.comments
        /\ fencedResults.value.summary = bareResults.value.summary

(***************************************************************************)
(* What an annotated line tells of the line it annotates                   *)
(***************************************************************************)
\* The kind and the numbers of input line i: a context line has an old-file
\* and a new-file number, a deletion an old-file number only, an addition a
\* new-file number only (0: none).
Numbering(lines, i) ==
    [kind |-> lines[i].first,
     old  |-> IF lines[i].first \in {" ", "-"} THEN OldNumber(lines, i) ELSE 0,
     new  |-> IF lines[i].first \in {" ", "+"} THEN NewNumber(lines, i) ELSE 0]

\* C12: the annotation is lossless: the marker and the bracketed number of an
\* annotated line determine the kind and the exact old-file and new-file
\* numbers of the line it annotates, for context, addition and deletion
\* lines alike.  A context line carries its old-file number only (the fault
\* met in C1), so two context lines annotated alike can differ in their
\* new-file numbers, even in a diff that begins with a hunk header.
CexC12_AnnotationDeterminesNumbering ==
    (fpc = "done" /\ HunkHeaderMatch(SplitLines(diffText)[1])) =>
        LET lines == SplitLines(diffText) IN
        \A k1, k2 \in 1..Len(formatted) :
            (formatted[k1].m = formatted[k2].m /\ formatted[k1].n = formatted[k2].n)
            => Numbering(lines, SourceIndex(lines, k1)) = Numbering(lines, SourceIndex(lines, k2))

\* What does hold: the marker and the bracketed number determine the kind,
\* the old-file number of a context or deletion line and the new-file number
\* of an addition line.
AuxC12_AnnotationDeterminesLabelledNumber ==
    fpc = "done" =>
        LET lines == SplitLines(diffText) IN
        \A k \in 1..Len(formatted) :
            LET i == SourceIndex(lines, k) IN
            /\ formatted[k].m = Numbering(lines, i).kind
            /\ formatted[k].m \in {" ", "-"} => formatted[k].n = Numbering(lines, i).old
            /\ formatted[k].m = "+" => formatted[k].n = Numbering(lines, i).new

(***************************************************************************)
(* The pre-filter on its own                                               *)
(***************************************************************************)
\* C13: filterDiffByExcludePatterns is idempotent: for every diff text d,
\* with or without a preamble before the first `diff --git `, and every
\* pattern list p, filtering the filtered text again changes nothing.
ThmC13_FilterDiffIdempotent ==
    flpc = "twice" => twice = once

\* C13's case: a diff with a preamble, of which the first pass removed the
\* preamble and an excluded section and kept another section.
WitC13_PreambleAndExcludedSectionRemoved ==
    /\ flpc = "twice"
    /\ fDiff # << >>
    /\ fDiff[1] # DG
    /\ Hdr(RulesPath, RulesPath) \in HeadersOf(fDiff)
    /\ Hdr(RulesPath, RulesPath) \notin HeadersOf(once)
    /\ Hdr(TestJsPath, TestJsPath) \in HeadersOf(once)
    /\ once # fDiff
    /\ twice = once

\* C14: the pre-filter keeps a section whose path cannot be extracted: every
\* section whose header the pattern `diff --git a/<path> b/` does not match
\* is in the output.  The code skips such a section (`continue`).
CexC14_UnparsableSectionKept ==
    flpc \in {"once", "twice"} =>
        Cardinality({i \in 1..Len(once) : once[i] = QuotedHdr})
            = Cardinality({i \in 1..Len(fDiff) : fDiff[i] = QuotedHdr})

\* What the code does with them: no such section is ever in the output.
AuxC14_UnparsableSectionDropped ==
    flpc \in {"once", "twice"} => \A i \in 1..Len(once) : once[i] # QuotedHdr

(***************************************************************************)
(* Posting                                                                 *)
(***************************************************************************)
\* Line comment i of the queue cannot be placed: its file is not among the
\* pull request's files, the file has no patch, the target line is not
\* found in the patch, or the create call rejected.
Unplaceable(i) ==
    /\ postQueue[i].type = "line"
    /\ \/ \A k \in 1..Len(prFiles) : JStr(prFiles[k].filename) # postQueue[i].file
       \/ FindFile(prFiles, postQueue[i])[1].patch = << >>
       \/ PositionOf(FindFile(prFiles, postQueue[i])[1].patch, postQueue[i]) = 0
       \/ (i <= Len(outcomes) /\ outcomes[i] = "create rejected")

PostedFrom == {postedComments[k].from : k \in 1..Len(postedComments)}

\* C15: in postComments a line comment that cannot be placed is dropped
\* without throwing, every later comment is still attempted, and
\* postComments completes normally: once the loop runs nothing fails, the
\* loop handles the comments one after the other, and when it is over every
\* comment has been handled and none of the unplaceable ones was posted.
ThmC15_UnplaceableCommentDropped ==
    /\ pstpc = "failed" => idx = 0
    /\ pstpc \in {"loop", "creating"} => Len(outcomes) = idx - 1
    /\ pstpc = "output" =>
          /\ Len(outcomes) = Len(postQueue)
          /\ \A i \in 1..Len(postQueue) :
                /\ Unplaceable(i) => i \notin PostedFrom
                /\ outcomes[i] = "posted" <=> i \in PostedFrom

\* C15's case: the first comment's line is not found, the second's create
\* call rejects, and the third is posted all the same.
WitC15_LaterCommentPosted ==
    /\ pstpc = "output"
    /\ postQueue = <<LineComment(TestJsPath, 99), LineComment(TestJsPath, 1),
                     LineComment(TestJsPath, 1)>>
    /\ outcomes = <<"position not found", "create rejected", "posted">>
    /\ PostedFrom = {3}

\* C17: after a run, the `comment-count` output is the number of comments
\* that were posted to the pull request.  The code sets it to the number of
\* comments the analysis returned, dropped ones included.
CexC17_CommentCountIsPostedCount ==
    pstpc = "output" => commentCount = Len(postedComments)

\* What the output is: the length of analysisResults.comments.
AuxC17_CommentCountIsGeneratedCount ==
    pstpc = "output" => commentCount = Len(postQueue)

(***************************************************************************)
(* Errors of the core                                                      *)
(***************************************************************************)
\* C16: no core function raises: for every diff text, pattern list and
\* response text, filterDiffByExcludePatterns, formatDiffWithLineNumbers,
\* parseResponse and filterCommentsByExcludePatterns (applied to what
\* parseResponse returned) each return a result, so once analyzeDiff has
\* called the generation service it throws only when that call itself
\* fails.  parseResponse accepts a line
\* entry whose `file` is no string, and the glob match of the post-filter
\* throws on it.
CexC16_NoCoreFunctionRaises ==
    (apc = "threw" /\ llmCalled # "none") => analysisResults = Throw("LLM API error")

\* What holds: the pre-filter, the annotation and parseResponse return, and
\* the post-filter returns whenever every line comment's file is a string.
AuxC16_PostFilterReturnsOnStringFiles ==
    (/\ apc = "threw"
     /\ llmCalled # "none"
     /\ \A i \in 1..Len(parsedComments) :
           parsedComments[i].type = "line" => parsedComments[i].file.j = "str")
    => analysisResults = Throw("LLM API error")

\* C18: analyzeDiff called with a provider other than "openai" or
\* "anthropic", compared without regard to case, rejects with the error
\* "Unsupported LLM provider: <provider>" and calls no generation service;
\* with one of the two, in whatever case, it calls that service.
ThmC18_UnsupportedProviderRejects ==
    apc # "start" =>
        /\ provider \in {"invalid-provider", ""} =>
              /\ apc = "threw"
              /\ analysisResults = ThrowWith("Unsupported LLM provider: ", provider)
              /\ llmCalled = "none"
        /\ provider \in {"openai", "OpenAI"} => llmCalled = "openai"
        /\ provider \in {"anthropic", "Anthropic"} => llmCalled = "anthropic"

\* The repository's test: provider "invalid-provider".
WitC18_InvalidProviderRejected ==
    /\ apc = "threw"
    /\ provider = "invalid-provider"
    /\ analysisResults = ThrowWith("Unsupported LLM provider: ", "invalid-provider")
    /\ llmCalled = "none"
    /\ llmResponse = << >>

(***************************************************************************)
(* The commit identifier of a line comment                                 *)
(***************************************************************************)
\* The valid entries of a payload, in input order.
ValidEntries(text) == SelectSeq(RawComments(text), ValidEntry)

NoNullEntry(text) ==
    \A i \in 1..Len(RawComments(text)) : RawComments(text)[i] # JNull

\* C19: a commit identifier present on a raw line-comment entry under either
\* key, `commitId` or `commit_id`, is preserved unchanged on the resulting
\* line comment; with neither key the field is left absent.  The code reads
\* the key `commit_id` only: an identifier under `commitId` is lost.
CexC19_CommitIdPreservedUnderEitherKey ==
    (ppc = "done" /\ HasCommentsArray(responseText) /\ NoNullEntry(responseText)) =>
        /\ Len(results.value.comments) = Len(ValidEntries(responseText))
        /\ \A k \in 1..Len(ValidEntries(responseText)) :
              LET e == ValidEntries(responseText)[k] IN
              e.f.type = JStr(<<"line">>) =>
                  /\ "commitId" \in DOMAIN e.f =>
                        results.value.comments[k].commit_id = e.f.commitId
                  /\ "commit_id" \in DOMAIN e.f =>
                        results.value.comments[k].commit_id = e.f.commit_id
                  /\ {"commitId", "commit_id"} \cap DOMAIN e.f = {} =>
                        results.value.comments[k].commit_id = Undefined

\* What holds: an identifier under `commit_id` is preserved, and without
\* that key the field is undefined.
AuxC19_CommitIdPreservedUnderSnakeKey ==
    (ppc = "done" /\ HasCommentsArray(responseText) /\ NoNullEntry(responseText)) =>
        /\ Len(results.value.comments) = Len(ValidEntries(responseText))
        /\ \A k \in 1..Len(ValidEntries(responseText)) :
              LET e == ValidEntries(responseText)[k] IN
              e.f.type = JStr(<<"line">>) =>
                  results.value.comments[k].commit_id =
                      IF "commit_id" \in DOMAIN e.f THEN e.f.commit_id ELSE Undefined

(***************************************************************************)
(* The walk of the resolver                                                *)
(***************************************************************************)
\* The patch lines on which a counter that is reset to newStart - 1 at every
\* hunk header, and incremented on every context or addition line, equals
\* the target after the increment.
CounterHits(p, target) ==
    {i \in 1..Len(p) :
        /\ ~HunkHeaderMatch(p[i])
        /\ p[i].first \in {" ", "+"}
        /\ NewNumber(p, i) = target}

\* The 1-based ordinal, headers counted, of the first such line (0: none).
FirstHit(p, target) ==
    IF CounterHits(p, target) = {} THEN 0
    ELSE CHOOSE i \in CounterHits(p, target) : \A j \in CounterHits(p, target) : i <= j

\* C20: the resolver walks the patch line by line, resets its new-file
\* counter to newStart - 1 at every hunk header, increments it on every
\* context or addition line and never on a deletion, and on the first line
\* where the counter equals targetLine returns that line's 1-based ordinal
\* in the patch text, hunk headers counted, with side RIGHT.
\* findPositionInDiff does not reset its counter at a hunk header (the
\* fault met in C3).
CexC20_ResolverWalk ==
    /\ rpc = "position" => position = FirstHit(patch, targetLine)
    /\ rpc = "lineinfo" =>
          lineInfo = IF FirstHit(patch, targetLine) = 0 THEN NoLineInfo
                     ELSE [line |-> FirstHit(patch, targetLine), side |-> "RIGHT"]

\* The walk C20 describes is the walk of getLineInfoFromDiff.
AuxC20_LineInfoWalk ==
    rpc = "lineinfo" =>
        lineInfo = IF FirstHit(patch, targetLine) = 0 THEN NoLineInfo
                   ELSE [line |-> FirstHit(patch, targetLine), side |-> "RIGHT"]

(***************************************************************************)
(* The createReviewComment call of the line and side variants              *)
(***************************************************************************)
\* The file line a resolution of target t stands for: a context or added
\* line numbered t in the new file with side RIGHT, or a deleted line
\* numbered t in the old file with side LEFT.
FileLineResolution(p, t) ==
    {info \in {[line |-> t, side |-> "RIGHT"], [line |-> t, side |-> "LEFT"]} :
        \E i \in 1..Len(p) :
            /\ ~HunkHeaderMatch(p[i])
            /\ \/ info.side = "RIGHT" /\ p[i].first \in {" ", "+"} /\ NewNumber(p, i) = t
               \/ info.side = "LEFT" /\ p[i].first = "-" /\ OldNumber(p, i) = t}

\* C21: in the line and side variant a successful resolution yields the
\* file line number itself (the new-file number with side RIGHT, or the
\* old-file number with side LEFT only for a deletion), and exactly that
\* line and that side are sent in the createReviewComment call.
\* The resolvers return the ordinal of the line in the patch text, and the
\* validating variant always sends side RIGHT.
CexC21_FileLineAndSideSent ==
    (rpc \in {"lineinfo", "validated"} /\ lineInfo # NoLineInfo) =>
        /\ lineInfo \in FileLineResolution(patch, targetLine)
        /\ reviewCalls = <<LineParams(lineInfo.line, lineInfo.side)>>

\* What holds: the line sent is the line resolved, which is the ordinal of a
\* patch line; part_005 sends the resolved side, part_004 sends RIGHT.
AuxC21_OrdinalSent ==
    (rpc \in {"lineinfo", "validated"} /\ lineInfo # NoLineInfo) =>
        /\ lineInfo.line \in 2..Len(patch)
        /\ Annotatable(patch, lineInfo.line)
        /\ lineInfo.side = IF patch[lineInfo.line].first = "-" THEN "LEFT" ELSE "RIGHT"
        /\ reviewCalls =
              <<LineParams(lineInfo.line,
                           IF rpc = "lineinfo" THEN lineInfo.side ELSE "RIGHT")>>

\* C22: with the validation step enabled a review comment is created only
\* when the target is an added or deleted line of the patch; a target on a
\* pure-context line or absent from the patch makes no call; and the line
\* validation accepted is the physical patch line that is then resolved.
\* Validation counts from oldStart - 1 and the resolver from newStart - 1,
\* both over additions, deletions and context lines alike.
CexC22_ValidatedTargetIsChangedLine ==
    (rpc = "validated" /\ reviewCalls # << >>) =>
        LET i == reviewCalls[1].line IN
        /\ i \in 1..Len(patch)
        /\ validation.codeLine = <<patch[i]>>
        /\ \/ patch[i].first = "+" /\ NewNumber(patch, i) = targetLine
           \/ patch[i].first = "-" /\ OldNumber(patch, i) = targetLine

\* What holds: no call is made unless validation accepted an added or a
\* deleted line of the patch.
AuxC22_CallOnlyAfterValidation ==
    (rpc = "validated" /\ reviewCalls # << >>) =>
        /\ validation.isValid
        /\ \E i \in 1..Len(patch) :
              /\ validation.codeLine = <<patch[i]>>
              /\ ~HunkHeaderMatch(patch[i])
              /\ patch[i].first \in {"+", "-"}

(***************************************************************************)
(* parseResponse of a payload that no fence wraps                          *)
(***************************************************************************)
\* C23: parseResponse strips a fence only when the whole response is wrapped
\* in one outer fence; a response that is not wholly wrapped, such as bare
\* valid JSON whose comment body holds a fenced snippet, is parsed as it is,
\* so a bare valid payload always yields its valid comments.
\* The pattern is not anchored: it matches a pair of fences anywhere, and the
\* text between the two replaces the response.
CexC23_BareJsonParsedAsIs ==
    (fncpc \in {"bare", "done"} /\ ~JsonParse(payload).threw) =>
        bareResults = parseResponse(<<Doc(JsonParse(payload).value)>>)

\* What holds: bare JSON with fewer than two fences in it is parsed as it is.
AuxC23_BareJsonWithoutFencePair ==
    (/\ fncpc \in {"bare", "done"}
     /\ ~JsonParse(payload).threw
     /\ Cardinality({i \in 1..Len(payload) : payload[i] = Fence}) < 2) =>
        bareResults = parseResponse(<<Doc(JsonParse(payload).value)>>)

(***************************************************************************)
(* The lines formatDiffWithLineNumbers does not annotate                   *)
(***************************************************************************)
\* The lines of a diff that are neither hunk headers, well formed or not,
\* nor context, addition or deletion lines.
OtherLines(lines) ==
    {i \in 1..Len(lines) : lines[i].first \notin {"@", " ", "-", "+"}}

\* C24: every input line that is neither a hunk header nor a context,
\* addition or deletion line is passed through to the output unannotated,
\* while hunk headers are consumed and never emitted.
\* The loop has no branch for such a line: nothing is pushed for it.
CexC24_OtherLinesPassedThrough ==
    fpc = "done" =>
        Len(formatted) =
            Cardinality({i \in 1..Len(diffText) : Annotatable(diffText, i)})
              + Cardinality(OtherLines(diffText))

\* What holds: the output holds the annotated lines and nothing else, so
\* neither a hunk header nor any other line is emitted.
AuxC24_OnlyAnnotatedLinesEmitted ==
    fpc = "done" =>
        Len(formatted) = Cardinality({i \in 1..Len(diffText) : Annotatable(diffText, i)})

\* The file-header and metadata lines of a git diff.
IsMetadataLine(line) == line \in {OldFileLine, NewFileLine, IndexLine}
IsHunkOrDiffLine(line) == ~IsMetadataLine(line)

\* C25: only lines inside a hunk are treated as diff lines: the file-header
\* and metadata lines of a full git diff (`index`, `--- a/`, `+++ b/`) are
\* never emitted with a marker and a number and never advance the old or
\* the new line counter, so the annotation is that of the diff without them.
\* `--- a/file` begins with '-' and `+++ b/file` with '+': the loop takes
\* them for a deletion and an addition.
CexC25_MetadataNeverAnnotated ==
    fpc = "done" =>
        formatted = formatDiffWithLineNumbers(SelectSeq(diffText, IsHunkOrDiffLine))

IsNotIndexLine(line) == line # IndexLine

\* What holds: a metadata line that begins with neither ' ', '-' nor '+' is
\* never emitted and advances no counter.
AuxC25_IndexLineNeverAnnotated ==
    fpc = "done" =>
        formatted = formatDiffWithLineNumbers(SelectSeq(diffText, IsNotIndexLine))

IsNotBadHunkLine(line) == line # BadHunkLine

\* C26: a malformed hunk header (a line that begins with `@@` and does not
\* match the numeric header pattern) leaves both line counters unchanged and
\* emits nothing, so the annotation is that of the diff without it, and
\* every later well-formed hunk header still resets the counters to its own
\* start values.
ThmC26_MalformedHeaderIgnored ==
    fpc = "done" =>
        /\ formatted = formatDiffWithLineNumbers(SelectSeq(diffText, IsNotBadHunkLine))
        /\ \A i \in 1..(Len(diffText) - 1) :
              (/\ HunkHeaderMatch(diffText[i])
               /\ Annotatable(diffText, i + 1)
               /\ \E j \in 1..(i - 1) : diffText[j] = BadHunkLine) =>
                  formatted[OutIndex(diffText, i + 1)].n =
                      IF diffText[i + 1].first = "+" THEN diffText[i].hunk[2]
                      ELSE diffText[i].hunk[1]

\* C26's case: lines are annotated before a malformed header and after a
\* well-formed header that follows it.
WitC26_HeaderAfterMalformedHeader ==
    /\ fpc = "done"
    /\ \E j \in 2..Len(diffText) :
          /\ diffText[j] = BadHunkLine
          /\ Annotatable(diffText, j - 1)
          /\ \E i \in (j + 1)..(Len(diffText) - 1) :
                /\ HunkHeaderMatch(diffText[i])
                /\ Annotatable(diffText, i + 1)
    /\ Len(formatted) >= 2

(***************************************************************************)
(* The file sections of a diff and what the pre-filter keeps of them       *)
(***************************************************************************)
\* The places of the `diff --git ` that begin a line.
LineStartDGs(d) == {i \in 1..Len(d) : d[i] = DG /\ (i = 1 \/ d[i - 1] # AddStart)}

\* The `diff --git ` that begins the file section token j belongs to (0: none).
OwnerOf(d, j) ==
    IF \E i \in LineStartDGs(d) : i <= j
    THEN CHOOSE i \in LineStartDGs(d) :
            i <= j /\ \A k \in LineStartDGs(d) : k <= j => k <= i
    ELSE 0

\* A git diff of files changed in place: it begins with a file section and
\* every file section has a header with one path.
InPlaceGitDiff(d) ==
    /\ d # << >> => d[1] = DG
    /\ \A i \in LineStartDGs(d) :
          i < Len(d) /\ d[i + 1].k = "hdr" /\ d[i + 1].a = d[i + 1].b

\* The file sections of d whose path matches no pattern, whole and in order.
RECURSIVE KeptSectionsFrom(_, _, _)
KeptSectionsFrom(d, j, patterns) ==
    IF j > Len(d) THEN << >>
    ELSE (IF ~IsMatch(d[OwnerOf(d, j) + 1].a, patterns) THEN <<d[j]>> ELSE << >>)
            \o KeptSectionsFrom(d, j + 1, patterns)

\* C27: filterDiffByExcludePatterns changes nothing but the excluded
\* sections: for every diff, also one whose file content lines hold the text
\* `diff --git `, the output is the concatenation in input order of exactly
\* the file sections whose path matches no pattern, each identical to the
\* input section, no line of a kept file lost and no section duplicated.
\* The text is cut at every `diff --git `, also inside a content line, and
\* the piece after such a cut has no file header and is dropped.
CexC27_KeptSectionsUntouched ==
    (flpc \in {"once", "twice"} /\ InPlaceGitDiff(fDiff)) =>
        once = KeptSectionsFrom(fDiff, 1, fPatterns)

\* What holds: C27 for diffs in which `diff --git ` only begins file headers.
AuxC27_KeptSectionsUntouchedWithoutInnerCut ==
    (/\ flpc \in {"once", "twice"}
     /\ InPlaceGitDiff(fDiff)
     /\ \A i \in 1..Len(fDiff) : fDiff[i] # AddStart) =>
        once = KeptSectionsFrom(fDiff, 1, fPatterns)

(***************************************************************************)
(* The prompt and the excluded files                                       *)
(***************************************************************************)
\* C28: the prompt does not depend on excluded files: two analyzeDiff runs
\* with the same patterns, rules and context, whose diffs differ only inside
\* file sections that match an exclusion pattern, build the same prompt.
\* A section is tested under its old path only (the fault met in C8), and a
\* `diff --git a/<x> b/<y>` inside a line of an excluded file begins a
\* section of its own, which is tested under <x> (the cut met in C27).
CexC28_PromptIndependentOfExcludedFiles ==
    tpc = "second" => promptA = promptB

\* What holds: C28 for diffs of files changed in place in which
\* `diff --git ` only begins file headers.
AuxC28_PromptIndependentWithoutRenameOrInnerCut ==
    (/\ tpc = "second"
     /\ \A d \in {diffA, diffB} : \A i \in 1..Len(d) :
           /\ d[i] # AddStart
           /\ d[i].k = "hdr" => d[i].a = d[i].b) =>
        promptA = promptB

(***************************************************************************)
(* The position sent by postLineComment                                    *)
(***************************************************************************)
\* C29: every createReviewComment call made by postLineComment carries a
\* position p between 1 and the number of lines of the file's patch, and
\* the p-th patch line begins with '+' or ' ' (it is no hunk header and no
\* deletion); when the patch is undefined or empty, or the target line is
\* 0 or less, findPositionInDiff returns null and no call is made.
ThmC29_PositionOnAddedOrContextLine ==
    rpc = "position" =>
        /\ \A k \in 1..Len(reviewCalls) :
              LET p == reviewCalls[k].position IN
              /\ p \in 1..Len(patch)
              /\ patch[p].first \in {"+", " "}
              /\ ~HunkHeaderMatch(patch[p])
              /\ reviewCalls[k].side = "RIGHT"
        /\ (patch = << >> \/ targetLine <= 0) => (position = 0 /\ reviewCalls = << >>)
        /\ position = 0 <=> reviewCalls = << >>

\* C29's case: a call is made for a line that follows a deletion.
WitC29_CallAfterDeletion ==
    /\ rpc = "position"
    /\ reviewCalls # << >>
    /\ \E i \in 1..(reviewCalls[1].position - 1) : patch[i].first = "-"

\* C29's other case: a target of 0 or less on a patch with lines makes no call.
AuxC29_NoCallForTargetBelowOne ==
    (rpc = "position" /\ patch # << >> /\ targetLine <= 0) => reviewCalls = << >>

(***************************************************************************)
(* The order of the create calls of postComments                           *)
(***************************************************************************)
\* No create call was issued before pulls.get and pulls.listFiles resolved;
\* the calls were issued in list order, each comment at most once; and every
\* call but one that is awaited has settled.
SequentialAttempts ==
    /\ pstpc \in {"start", "listing"} => attempts = << >>
    /\ (pstpc = "failed" /\ idx = 0) => (attempts = << >> /\ postedComments = << >>)
    /\ \A m \in 1..Len(attempts) : attempts[m] \in 1..Len(postQueue)
    /\ \A m, n \in 1..Len(attempts) : m < n => attempts[m] < attempts[n]
    /\ \A m \in 1..Len(attempts) :
          \/ /\ attempts[m] <= Len(outcomes)
             /\ outcomes[attempts[m]] \in {"posted", "create rejected"}
          \/ m = Len(attempts) /\ pstpc = "creating" /\ idx = attempts[m]
    /\ Len(postedComments) <= Len(attempts)

\* A create call is issued for the comment the loop is at, when no call is
\* awaited and every earlier comment of the list has its outcome.
IssuedInTurn ==
    attempts' # attempts =>
        /\ pstpc = "loop"
        /\ pstpc' = "creating"
        /\ attempts' = Append(attempts, idx)
        /\ Len(outcomes) = idx - 1
        /\ \A m \in 1..Len(attempts) : attempts[m] < idx

\* C30: postComments posts strictly sequentially in list order: no create
\* call is made before pulls.get and pulls.listFiles have both succeeded (if
\* either fails, postComments throws and nothing is posted), the call for a
\* comment is issued only after the call for every earlier comment has
\* settled, and each comment gets at most one attempt.
ThmC30_SequentialPosting == [] SequentialAttempts /\ [][IssuedInTurn]_vars

\* C30's case: a create call was rejected, a later one resolved, and the
\* loop is over.
WitC30_RejectedThenPosted ==
    /\ pstpc = "output"
    /\ Len(attempts) >= 2
    /\ outcomes[attempts[1]] = "create rejected"
    /\ outcomes[attempts[2]] = "posted"
    /\ \E k \in 1..Len(outcomes) : outcomes[k] \notin {"posted", "create rejected"}

\* C30's other case: a fetch failed and nothing was posted.
AuxC30_FetchFailedNothingPosted ==
    (pstpc = "failed") => (attempts = << >> /\ postedComments = << >> /\ commentCount = -1)

====
